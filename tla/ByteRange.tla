------------------------------ MODULE ByteRange ------------------------------
(***************************************************************************)
(* parse_single_range of server/resource_server.py: which bytes of a file  *)
(* of a given size a Range header selects.  Bytes are numbered from 0.     *)
(***************************************************************************)
EXTENDS Integers

\* The header "bytes=..." as the code splits it at its first "-"; what is no
\* number, several ranges or another unit is "malformed".
None      == [kind |-> "none"]
Malformed == [kind |-> "malformed"]
Suffix(n) == [kind |-> "suffix", last |-> n]
From(n)   == [kind |-> "from", first |-> n]
Span(m, n) == [kind |-> "span", first |-> m, last |-> n]

IsRange(r) ==
    \/ r.kind \in {"none", "malformed"}
    \/ r.kind = "suffix" /\ r.last \in Int
    \/ r.kind = "from" /\ r.first \in Nat
    \/ r.kind = "span" /\ r.first \in Nat /\ r.last \in Int

Unsatisfiable == [first |-> 0, length |-> -1]
Slice(first, last) == [first |-> first, length |-> last - first + 1]

Smaller(m, n) == IF m < n THEN m ELSE n

\* The last n bytes.
SuffixSlice(n, size) ==
    IF n <= 0 THEN Unsatisfiable ELSE Slice(size - Smaller(n, size), size - 1)

\* The bytes m to n.  Mutant: n is taken for the first byte left out.
SpanSliceExclusive(m, n, size) ==
    IF m >= size \/ n < m THEN Unsatisfiable ELSE Slice(m, Smaller(n, size) - 1)
SpanSlice(m, n, size) ==
    IF m >= size \/ n < m THEN Unsatisfiable ELSE Slice(m, Smaller(n, size - 1))

\* The bytes of a 200 or 206 reply, or Unsatisfiable for 416.
Parse(r, size) ==
    CASE r.kind = "none"      -> Slice(0, size - 1)
      [] r.kind = "malformed" -> Unsatisfiable
      [] r.kind = "suffix"    -> IF size <= 0 THEN Unsatisfiable ELSE SuffixSlice(r.last, size)
      [] r.kind = "from"      -> SpanSlice(r.first, size - 1, size)
      [] r.kind = "span"      -> SpanSlice(r.first, r.last, size)

\* The reference: the bytes of the file that RFC 7233 says the range means.
Asked(r, size) ==
    {i \in 0..(size - 1) :
        CASE r.kind = "none"      -> TRUE
          [] r.kind = "malformed" -> FALSE
          [] r.kind = "suffix"    -> i >= size - r.last
          [] r.kind = "from"      -> i >= r.first
          [] r.kind = "span"      -> r.first <= i /\ i <= r.last}

Bytes(slice) == slice.first..(slice.first + slice.length - 1)
=============================================================================
