--------------------------- MODULE IntrusiveList ---------------------------
(***************************************************************************)
(* The doubly linked lists of rtservice.h as sequences.  A node is the      *)
(* object it is part of, so it is in one place of one list at most, and     *)
(* rt_list_remove needs no list: it acts on the one the node is in.         *)
(***************************************************************************)
EXTENDS Integers, Sequences

Members(s) == {s[i] : i \in DOMAIN s}

\* No node is linked twice.
Distinct(s) == \A i, j \in DOMAIN s : s[i] = s[j] => i = j

\* rt_list_remove of t's node, which may be in no list.
Unlink(s, t) ==
  IF \E i \in DOMAIN s : s[i] = t
  THEN LET i == CHOOSE i \in DOMAIN s : s[i] = t
       IN  SubSeq(s, 1, i - 1) \o SubSeq(s, i + 1, Len(s))
  ELSE s

\* rt_list_insert_before, rt_list_insert_after: t goes behind n nodes.
LinkBehind(s, n, t) == SubSeq(s, 1, n) \o <<t>> \o SubSeq(s, n + 1, Len(s))

\* rt_list_remove of one node after the other, those of ts.
UnlinkAll(s, ts) ==
  LET rest[n \in 0 .. Len(s)] ==
        IF n = 0 THEN <<>>
        ELSE IF s[n] \in ts THEN rest[n - 1] ELSE Append(rest[n - 1], s[n])
  IN  rest[Len(s)]
=============================================================================
