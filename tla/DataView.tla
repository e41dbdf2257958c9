------------------------------ MODULE DataView -------------------------------
(***************************************************************************)
(* data_view: a pointer and a size.  The bytes it shows are a sequence here;  *)
(* the functions that compare two views.                                    *)
(***************************************************************************)
EXTENDS Integers, Sequences, FiniteSetsExt

\* Mutated form of Memcmp: only the first bytes are compared.
MemcmpFirst(a, b, n) == IF n = 0 THEN 0 ELSE a[1] - b[1]

\* memcmp: the first of n bytes that differs decides.
Memcmp(a, b, n) ==
    LET differing == {i \in 1 .. n : a[i] # b[i]}
    IN IF differing = {} THEN 0 ELSE a[Min(differing)] - b[Min(differing)]

\* compare()
Compare(a, b) ==
    LET cmp == Memcmp(a, b, Min({Len(a), Len(b)}))
    IN IF cmp # 0 THEN cmp
       ELSE IF Len(a) = Len(b) THEN 0
       ELSE IF Len(a) < Len(b) THEN -1 ELSE 1

\* operator==, which does not call compare().
Equal(a, b) == Len(a) = Len(b) /\ \A i \in 1 .. Len(a) : a[i] = b[i]

\* operator<, <=, > and >=
Less(a, b) == Compare(a, b) < 0
LessOrEqual(a, b) == Compare(a, b) <= 0
Greater(a, b) == Compare(a, b) > 0
GreaterOrEqual(a, b) == Compare(a, b) >= 0
=============================================================================
