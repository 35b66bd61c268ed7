------------------------------ MODULE Postings ------------------------------
(***************************************************************************)
(* The postings iterators of pkg/phlaredb/tsdb/index/postings.go: the      *)
(* sorted lists of series references an index answers with, and the lazy   *)
(* intersection, union and difference that PostingsForMatchers builds from *)
(* them.  An iterator is a value: Next and Seek return whether they found  *)
(* an element and the iterator as the call leaves it.  A reference is a    *)
(* positive number, since every series lies behind the header of its file. *)
(*                                                                         *)
(* Errors are left out: the iterators over a file in memory have none.     *)
(***************************************************************************)
EXTENDS Naturals, Sequences, SequencesExt

(* Seek(x), or Next where x is 0: the iterators of an iterator are moved   *)
(* by either, and the loops of the code are calls of the same method on    *)
(* the iterator as the last turn left it.                                  *)
RECURSIVE Moved(_, _)

NextOf(it) == Moved(it, 0)
SeekOf(it, x) == Moved(it, x)

(* bigEndianPostings over a sorted list, and EmptyPostings, which is one   *)
(* over no list.                                                           *)
ListPostings(list) == [kind |-> "list", list |-> list, cur |-> 0]

EmptyPostings == ListPostings(<<>>)

At(it) == it.cur

Failed(it) == [ok |-> FALSE, it |-> it]
Found(it) == [ok |-> TRUE, it |-> it]

listNext(it) ==
  IF it.list = <<>> THEN Failed(it)
  ELSE Found([it EXCEPT !.cur = Head(it.list), !.list = Tail(it.list)])

listFrom(it, later) ==
  IF later = <<>> THEN Failed([it EXCEPT !.list = <<>>])
  ELSE Found([it EXCEPT !.cur = Head(later), !.list = Tail(later)])

listSeek(it, x) ==
  IF it.cur >= x THEN Found(it)
  ELSE listFrom(it, SelectSeq(it.list, LAMBDA e : e >= x))

-----------------------------------------------------------------------------
(* Intersect.                                                              *)

Intersect(its) ==
  CASE its = <<>> -> EmptyPostings
    [] Len(its) = 1 -> its[1]
    [] OTHER -> [kind |-> "intersect", arr |-> its, cur |-> 0]

(* One pass: up to the first operand that is exhausted or lies beyond cur, *)
(* which is the next to look for.                                          *)
movedUpTo(it, moved, stop) ==
  [it EXCEPT !.arr = [i \in DOMAIN @ |-> IF stop = 0 \/ i <= stop THEN moved[i].it ELSE @[i]]]

afterPass(it, sought, stop) ==
  CASE stop = 0 -> Found(movedUpTo(it, sought, stop))
    [] stop # 0 /\ ~sought[stop].ok -> Failed(movedUpTo(it, sought, stop))
    [] OTHER -> SeekOf(movedUpTo(it, sought, stop), At(sought[stop].it))

seekUpTo(it, sought) ==
  afterPass(it, sought, SelectInSeq(sought, LAMBDA r : ~r.ok \/ At(r.it) > it.cur))

intersectDoNext(it) == seekUpTo(it, [i \in DOMAIN it.arr |-> SeekOf(it.arr[i], it.cur)])

intersectSeek(it, x) == intersectDoNext([it EXCEPT !.cur = x])

afterNext(it, next, fails) ==
  IF fails # 0 THEN Failed(movedUpTo(it, next, fails))
  ELSE intersectSeek(movedUpTo(it, next, fails),
                     FoldSeq(LAMBDA r, m : IF At(r.it) > m THEN At(r.it) ELSE m, it.cur, next))

allNext(it, next) == afterNext(it, next, SelectInSeq(next, LAMBDA r : ~r.ok))

intersectNext(it) == allNext(it, [i \in DOMAIN it.arr |-> NextOf(it.arr[i])])

-----------------------------------------------------------------------------
(* Merge.  The heap is a sequence whose least element is its top; which of *)
(* two equal ones is on top makes no difference to what is returned.       *)

top(h) == CHOOSE i \in DOMAIN h : \A j \in DOMAIN h : At(h[i]) <= At(h[j])

merged(its, next) ==
  CASE its = <<>> -> EmptyPostings
    [] Len(its) = 1 -> its[1]
    [] \A i \in DOMAIN next : ~next[i].ok -> EmptyPostings
    [] OTHER -> [kind |-> "merged", initialized |-> FALSE, cur |-> 0,
                 h |-> FlattenSeq([i \in DOMAIN next |-> IF next[i].ok THEN <<next[i].it>> ELSE <<>>])]

Merge(its) == merged(its, [i \in DOMAIN its |-> NextOf(its[i])])

(* The top is replaced by what its Next or Seek made of it, or popped.     *)
Popped(it, i, r) ==
  [it EXCEPT !.h = IF r.ok THEN [@ EXCEPT ![i] = r.it] ELSE RemoveAt(@, i)]

least(it) == At(it.h[top(it.h)])

advanced(it) ==
  IF it.h = <<>> THEN Failed(it)
  ELSE IF least(it) # it.cur THEN Found([it EXCEPT !.cur = least(it)])
  ELSE NextOf(it)

mergedAdvance(it, i) == advanced(Popped(it, i, NextOf(it.h[i])))

mergedNext(it) ==
  IF it.h = <<>> THEN Failed(it)
  ELSE IF ~it.initialized THEN Found([it EXCEPT !.initialized = TRUE, !.cur = least(it)])
  ELSE mergedAdvance(it, top(it.h))

forwarded(it, x) ==
  IF it.h = <<>> THEN Failed(it) ELSE SeekOf([it EXCEPT !.cur = least(it)], x)

mergedForward(it, i, x) ==
  IF it.cur >= x THEN Found(it) ELSE forwarded(Popped(it, i, SeekOf(it.h[i], x)), x)

mergedSeek(it, x) ==
  IF it.h = <<>> THEN Failed(it)
  ELSE IF ~it.initialized THEN SeekOf(mergedNext(it).it, x)
  ELSE mergedForward(it, top(it.h), x)

-----------------------------------------------------------------------------
(* Without.                                                                *)

Without(full, drop) ==
  [kind |-> "removed", full |-> full, remove |-> drop, cur |-> 0,
   initialized |-> FALSE, fok |-> FALSE, rok |-> FALSE]

(* Both lists keep whether their last call found an element.               *)
withFull(it, r) == [it EXCEPT !.full = r.it, !.fok = r.ok]
withRemove(it, r) == [it EXCEPT !.remove = r.it, !.rok = r.ok]

forwardFull(it) == withFull(it, NextOf(it.full))

Kept(it) == Found(forwardFull([it EXCEPT !.cur = At(it.full)]))

removedNext(it) ==
  CASE ~it.initialized ->
         NextOf([withRemove(forwardFull(it), NextOf(it.remove)) EXCEPT !.initialized = TRUE])
    [] it.initialized /\ ~it.fok -> Failed(it)
    [] it.initialized /\ it.fok /\ (~it.rok \/ At(it.full) < At(it.remove)) -> Kept(it)
    [] it.initialized /\ it.fok /\ it.rok /\ At(it.remove) < At(it.full) ->
         NextOf(withRemove(it, SeekOf(it.remove, At(it.full))))
    [] OTHER -> NextOf(forwardFull(it))

removedSeek(it, x) ==
  IF it.cur >= x THEN Found(it)
  ELSE NextOf([withFull(withRemove(it, SeekOf(it.remove, x)), SeekOf(it.full, x))
                 EXCEPT !.initialized = TRUE])

-----------------------------------------------------------------------------
Moved(it, x) ==
  CASE it.kind = "list" -> IF x = 0 THEN listNext(it) ELSE listSeek(it, x)
    [] it.kind = "intersect" -> IF x = 0 THEN intersectNext(it) ELSE intersectSeek(it, x)
    [] it.kind = "merged" -> IF x = 0 THEN mergedNext(it) ELSE mergedSeek(it, x)
    [] it.kind = "removed" -> IF x = 0 THEN removedNext(it) ELSE removedSeek(it, x)

RECURSIVE ExpandPostings(_)

expanded(r) == IF r.ok THEN <<At(r.it)>> \o ExpandPostings(r.it) ELSE <<>>

ExpandPostings(it) == expanded(NextOf(it))
=============================================================================
