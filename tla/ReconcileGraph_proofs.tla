------------------------ MODULE ReconcileGraph_proofs ------------------------
(***************************************************************************)
(* The reconciliation graph, for any lines, faces, pairs, reversals and    *)
(* number of sessions.                                                     *)
(*                                                                         *)
(* GraphInv is the lock protocol: whatever a verb changes at its commit    *)
(* lies on lines it holds, so the lines a session holds are stable for it. *)
(* It says which lines are held at each point of a verb, and that a row id *)
(* names the same two lines in every copy of the row, the copies that were *)
(* read without a lock among them.                                         *)
(*                                                                         *)
(* MoneyInv is what is left of the lines, as the committed rows and as     *)
(* each session have it: never below nothing, and nothing on a line that   *)
(* is stamped.  A commit copies what its session saw, row for row.         *)
(*                                                                         *)
(* ScopeInv is the component a verb locks: closed under the edges it       *)
(* keeps, with no part that is cut off from the lines the verb began with. *)
(* Two sessions that grow towards each other can then never both commit.   *)
(***************************************************************************)
EXTENDS ReconcileGraph, SumTheorems

EdgeLike(e) ==
    /\ DOMAIN e = {"id", "debit", "credit", "amount", "group"}
    /\ e.id \in Nat /\ e.debit \in Line /\ e.credit \in Line

SameEnds(e, f) == e.debit = f.debit /\ e.credit = f.credit

Mine(s) == {l \in Line : holder[l] = s}
EndsIn(e, L) == e.debit \in L /\ e.credit \in L

ShapeInv ==
    /\ holder \in [Line -> Session \cup {Nil}]
    /\ pc \in [Session -> {"idle", "pair", "component", "reversal"}]
    /\ verb \in [Session -> Verb]
    /\ DOMAIN want = Session /\ DOMAIN closure = Session
    /\ DOMAIN made = Session /\ DOMAIN gone = Session
    /\ DOMAIN comp = Session /\ DOMAIN todo = Session

RowInv ==
    /\ lastEdge \in Nat
    /\ \A e \in edges : EdgeLike(e) /\ e.id \in 1..lastEdge
    /\ \A e, f \in edges : SameRow(e, f) => SameEnds(e, f)

\* What a session knows of rows, from before or after it locked their lines.
KnownInv(s) ==
    \A f \in closure[s] \cup gone[s] :
        /\ EdgeLike(f) /\ f.id \in 1..lastEdge
        /\ \A e \in edges : SameRow(e, f) => SameEnds(e, f)

MadeInv(s) == IsFiniteSet(made[s]) /\ \A e \in made[s] : EdgeLike(e)

\* What it holds.
HoldInv(s) ==
    /\ pc[s] \in {"idle", "pair"} => made[s] = {} /\ gone[s] = {} /\ todo[s] = {}
    /\ pc[s] = "pair" =>
          IF verb[s].kind = "unlink"
          THEN \A e \in closure[s] : EndsIn(e, Mine(s) \cup want[s])
          ELSE /\ verb[s].debit \in Line /\ verb[s].credit \in Line
               /\ EndsIn(verb[s], Mine(s) \cup want[s])
    /\ pc[s] \in {"component", "reversal"} =>
          /\ \A e \in made[s] \cup gone[s] : EndsIn(e, Mine(s))
          /\ comp[s] \subseteq Mine(s) \cup want[s]
          /\ todo[s] \subseteq Mine(s)
    /\ pc[s] = "reversal" => want[s] = {}

SessionInv(s) == KnownInv(s) /\ MadeInv(s) /\ HoldInv(s)

GraphInv == ShapeInv /\ RowInv /\ \A s \in Session : SessionInv(s)

-----------------------------------------------------------------------------
(* A step of one session that writes no row.                               *)

Apart(s) ==
    /\ \A t \in Session \ {s} :
          /\ pc'[t] = pc[t] /\ verb'[t] = verb[t] /\ want'[t] = want[t]
          /\ closure'[t] = closure[t] /\ made'[t] = made[t] /\ gone'[t] = gone[t]
          /\ comp'[t] = comp[t] /\ todo'[t] = todo[t]
    /\ \A t \in Session \ {s}, l \in Line : holder[l] = t <=> holder'[l] = t

LEMMA Frame ==
    ASSUME GraphInv, NEW s \in Session, Apart(s), ShapeInv', SessionInv(s)',
           edges' = edges, lastEdge' = lastEdge
    PROVE  GraphInv'
  <1>1. RowInv'
    BY DEF GraphInv, RowInv, EdgeLike, SameEnds, SameRow
  <1>2. ASSUME NEW t \in Session, t # s PROVE SessionInv(t)'
    <2>1. Mine(t)' = Mine(t)
      BY <1>2 DEF Apart, Mine
    <2>2. KnownInv(t)' /\ MadeInv(t)'
      BY <1>2 DEF Apart, GraphInv, SessionInv, KnownInv, MadeInv, EdgeLike, SameEnds, SameRow
    <2>3. HoldInv(t)'
      BY <1>2, <2>1 DEF Apart, GraphInv, SessionInv, HoldInv, EndsIn
    <2> QED
      BY <2>2, <2>3 DEF SessionInv
  <1> QED
    BY <1>1, <1>2 DEF GraphInv

LEMMA EndsOfOne == \A e : Ends({e}) = {e.debit, e.credit}
  BY DEF Ends

LEMMA InEnds ==
    ASSUME NEW E, NEW l PROVE l \in Ends(E) <=> \E e \in E : l \in {e.debit, e.credit}
  BY DEF Ends

\* The end of a transaction, whatever it did to the rows.
LEMMA EndKeeps ==
    ASSUME GraphInv, NEW s \in Session, EndTx(s)
    PROVE  /\ ShapeInv' /\ Apart(s)
           /\ closure'[s] = {} /\ made'[s] = {} /\ gone'[s] = {} /\ todo'[s] = {}
           /\ pc'[s] = "idle"
           /\ \A l \in Line : holder'[l] # s
  <1>1. NoVerb \in Verb
    BY DEF NoVerb, Verb
  <1>2. s # Nil
    BY NilAssumption
  <1>3. ShapeInv'
    BY <1>1 DEF EndTx, GraphInv, ShapeInv
  <1>4. Apart(s)
    BY <1>2, NilAssumption DEF EndTx, GraphInv, ShapeInv, Apart
  <1> QED
    BY <1>2, <1>3, <1>4 DEF EndTx, GraphInv, ShapeInv

LEMMA IdleSession ==
    ASSUME NEW s \in Session, pc'[s] = "idle",
           closure'[s] = {}, made'[s] = {}, gone'[s] = {}, todo'[s] = {}
    PROVE  SessionInv(s)'
  BY FS_EmptySet DEF SessionInv, KnownInv, MadeInv, HoldInv

LEMMA EndWithoutWriting ==
    ASSUME GraphInv, NEW s \in Session, EndTx(s), UNCHANGED graphVars
    PROVE  GraphInv'
  <1>1. SessionInv(s)'
    BY EndKeeps, IdleSession
  <1> QED
    BY <1>1, EndKeeps, Frame DEF graphVars

-----------------------------------------------------------------------------
(* The steps up to the commit.                                             *)

LEMMA BeginKeeps ==
    ASSUME GraphInv, NEW s \in Session, NEW v \in Verb, NEW lines, NEW read,
           Begin(s, v, lines, read),
           \A e \in read : e \in edges /\ EndsIn(e, lines),
           v.kind # "unlink" => v.debit \in Line /\ v.credit \in Line /\ EndsIn(v, lines)
    PROVE  GraphInv'
  <1>1. ShapeInv' /\ Apart(s)
    BY DEF Begin, GraphInv, ShapeInv, Apart
  <1>2. /\ pc'[s] = "pair" /\ verb'[s] = v /\ want'[s] = lines /\ closure'[s] = read
        /\ made'[s] = {} /\ gone'[s] = {} /\ todo'[s] = {}
    BY DEF Begin, GraphInv, ShapeInv, SessionInv, HoldInv
  <1>3. edges' = edges /\ lastEdge' = lastEdge
    BY DEF Begin, graphVars
  <1>4. KnownInv(s)' /\ MadeInv(s)'
    BY <1>2, <1>3, FS_EmptySet DEF KnownInv, MadeInv, GraphInv, RowInv
  <1>5. HoldInv(s)'
    BY <1>2 DEF HoldInv, EndsIn
  <1> QED
    BY <1>1, <1>3, <1>4, <1>5, Frame DEF SessionInv

LEMMA StartKeeps ==
    ASSUME GraphInv, NEW s \in Session, Start(s)
    PROVE  GraphInv'
  <1>1. ASSUME NEW d \in Line, NEW c \in Line, NEW n \in Amount, StartLink(s, d, c, n)
        PROVE  GraphInv'
    <2> DEFINE v == [kind |-> "link", debit |-> d, credit |-> c, amount |-> n]
    <2>1. v \in Verb
      BY LineAssumption DEF Verb
    <2>2. v.kind = "link" /\ EndsIn(v, {d, c}) /\ v.debit \in Line /\ v.credit \in Line
      BY DEF EndsIn
    <2>3. Begin(s, v, {d, c}, {})
      BY <1>1 DEF StartLink
    <2> HIDE DEF v
    <2> QED
      BY <2>1, <2>2, <2>3, BeginKeeps
  <1>2. ASSUME NEW p \in Pairable, StartUnlinkPair(s, p[1], p[2]) PROVE GraphInv'
    <2> DEFINE v == [NoVerb EXCEPT !.kind = "unlink_pair", !.debit = p[1], !.credit = p[2]]
    <2>1. p[1] \in Line /\ p[2] \in Line
      BY LineAssumption
    <2>2. v \in Verb /\ v.kind = "unlink_pair" /\ v.debit = p[1] /\ v.credit = p[2]
      BY <2>1 DEF Verb, NoVerb
    <2>3. Begin(s, v, {p[1], p[2]}, {})
      BY <1>2 DEF StartUnlinkPair
    <2> HIDE DEF v
    <2> QED
      BY <2>1, <2>2, <2>3, BeginKeeps DEF EndsIn
  <1>3. ASSUME NEW e \in edges, StartUnlink(s, e) PROVE GraphInv'
    <2> DEFINE v == [NoVerb EXCEPT !.kind = "unlink"]
    <2>1. v \in Verb /\ v.kind = "unlink"
      BY DEF Verb, NoVerb
    <2>2. Begin(s, v, Ends({e}), {e})
      BY <1>3 DEF StartUnlink
    <2> HIDE DEF v
    <2> QED
      BY <2>1, <2>2, BeginKeeps, EndsOfOne DEF EndsIn
  <1> QED
    BY <1>1, <1>2, <1>3 DEF Start

\* A lock that is granted was free, or the session's own.
LEMMA GrantKeepsOthers ==
    ASSUME GraphInv, NEW s \in Session, NEW l \in Line,
           holder[l] \in {Nil, s}, holder' = [holder EXCEPT ![l] = s]
    PROVE  /\ holder' \in [Line -> Session \cup {Nil}]
           /\ Mine(s)' = Mine(s) \cup {l}
           /\ \A t \in Session \ {s}, k \in Line : holder[k] = t <=> holder'[k] = t
  BY NilAssumption DEF GraphInv, ShapeInv, Mine

LEMMA LockLineKeeps ==
    ASSUME GraphInv, NEW s \in Session, NEW l \in Line, LockLine(s, l)
    PROVE  GraphInv'
  <1>1. /\ Mine(s)' = Mine(s) \cup {l} /\ holder' \in [Line -> Session \cup {Nil}]
        /\ \A t \in Session \ {s}, k \in Line : holder[k] = t <=> holder'[k] = t
    BY GrantKeepsOthers DEF LockLine
  <1>2. ShapeInv' /\ Apart(s)
    BY <1>1 DEF LockLine, GraphInv, ShapeInv, Apart
  <1>3. /\ edges' = edges /\ lastEdge' = lastEdge /\ want'[s] = want[s] \ {l}
        /\ pc' = pc /\ verb' = verb /\ closure' = closure /\ made' = made
        /\ gone' = gone /\ comp' = comp /\ todo' = todo
    BY DEF LockLine, graphVars, GraphInv, ShapeInv
  <1>4. KnownInv(s)' /\ MadeInv(s)'
    BY <1>3 DEF KnownInv, MadeInv, GraphInv, SessionInv, EdgeLike, SameRow, SameEnds
  <1>5. HoldInv(s)'
    <2>1. l \in want[s]
      BY DEF LockLine, LocksNext
    <2>2. HoldInv(s)
      BY DEF GraphInv, SessionInv
    <2> QED
      BY <1>1, <1>3, <2>1, <2>2 DEF HoldInv, EndsIn
  <1> QED
    BY <1>2, <1>3, <1>4, <1>5, Frame DEF SessionInv

LEMMA LinkKeeps ==
    ASSUME GraphInv, NEW s \in Session, Link(s)
    PROVE  GraphInv'
  <1> DEFINE d == verb[s].debit
             c == verb[s].credit
             e == [id |-> 0, debit |-> d, credit |-> c, amount |-> Clamp(s, d, c), group |-> 0]
             lines == Component(edges \cup {e}, {d, c})
  <1>1. d \in Mine(s) /\ c \in Mine(s) /\ d \in Line /\ c \in Line
    BY DEF Link, GraphInv, SessionInv, HoldInv, EndsIn
  <1>2. CASE NothingToDo(s)
    BY <1>2, EndWithoutWriting DEF NothingToDo
  <1>3. CASE /\ made' = [made EXCEPT ![s] = {e}]
             /\ comp' = [comp EXCEPT ![s] = lines]
             /\ want' = [want EXCEPT ![s] = lines]
             /\ pc' = [pc EXCEPT ![s] = "component"]
             /\ UNCHANGED <<graphVars, holder, verb, closure, gone, todo>>
    <2>1. EdgeLike(e) /\ EndsIn(e, Mine(s))
      BY <1>1 DEF EdgeLike, EndsIn
    <2> HIDE DEF e, lines
    <2>2. ShapeInv' /\ Apart(s)
      BY <1>3 DEF GraphInv, ShapeInv, Apart
    <2>3. /\ edges' = edges /\ lastEdge' = lastEdge /\ Mine(s)' = Mine(s)
          /\ made'[s] = {e} /\ comp'[s] = lines /\ want'[s] = lines /\ pc'[s] = "component"
          /\ closure' = closure /\ gone' = gone /\ todo' = todo
      BY <1>3 DEF graphVars, GraphInv, ShapeInv, Mine
    <2>4. gone[s] = {} /\ todo[s] = {}
      BY DEF Link, GraphInv, SessionInv, HoldInv
    <2>5. KnownInv(s)' /\ MadeInv(s)'
      <3>1. KnownInv(s)'
        BY <2>3 DEF KnownInv, GraphInv, SessionInv, EdgeLike, SameRow, SameEnds
      <3>2. IsFiniteSet({e})
        BY FS_Singleton
      <3>3. MadeInv(s)'
        BY <2>1, <2>3, <3>2 DEF MadeInv, EdgeLike
      <3> QED
        BY <3>1, <3>3
    <2>6. HoldInv(s)'
      BY <2>1, <2>3, <2>4 DEF HoldInv
    <2> QED
      BY <2>2, <2>3, <2>5, <2>6, Frame DEF SessionInv
  <1> QED
    BY <1>2, <1>3 DEF Link

LEMMA UnlinkKeeps ==
    ASSUME GraphInv, NEW s \in Session, Unlink(s)
    PROVE  GraphInv'
  <1> DEFINE E == Closure(s)
             lines == Component({e \in edges : \A f \in E : ~SameRow(e, f)}, Ends(E))
  <1>1. CASE NothingToDo(s)
    BY <1>1, EndWithoutWriting DEF NothingToDo
  <1>2. CASE /\ closure' = [closure EXCEPT ![s] = E]
             /\ gone' = [gone EXCEPT ![s] = E]
             /\ comp' = [comp EXCEPT ![s] = lines]
             /\ want' = [want EXCEPT ![s] = lines]
             /\ todo' = [todo EXCEPT ![s] = Ends(E)]
             /\ pc' = [pc EXCEPT ![s] = "component"]
             /\ UNCHANGED <<graphVars, holder, verb, made>>
    <2>1. \A f \in E : /\ EdgeLike(f) /\ f.id \in 1..lastEdge
                       /\ \A e \in edges : SameRow(e, f) => SameEnds(e, f)
      BY DEF Closure, GraphInv, RowInv, SessionInv, KnownInv
    <2>2. \A f \in E : EndsIn(f, Mine(s))
      <3>1. CASE verb[s].kind = "unlink"
        BY <3>1 DEF Closure, Unlink, GraphInv, SessionInv, HoldInv, EndsIn
      <3>2. CASE verb[s].kind # "unlink"
        <4>1. EndsIn(verb[s], Mine(s))
          BY <3>2 DEF Unlink, GraphInv, SessionInv, HoldInv, EndsIn
        <4>2. \A f \in E : Ends({f}) = {verb[s].debit, verb[s].credit}
          BY <3>2 DEF Closure
        <4> QED
          BY <4>1, <4>2, EndsOfOne DEF EndsIn
      <3> QED
        BY <3>1, <3>2
    <2>3. Ends(E) \subseteq Mine(s)
      BY <2>2, InEnds DEF EndsIn
    <2> HIDE DEF E, lines
    <2>4. ShapeInv' /\ Apart(s)
      BY <1>2 DEF GraphInv, ShapeInv, Apart
    <2>5. /\ edges' = edges /\ lastEdge' = lastEdge /\ Mine(s)' = Mine(s)
          /\ closure'[s] = E /\ gone'[s] = E /\ comp'[s] = lines /\ want'[s] = lines
          /\ todo'[s] = Ends(E) /\ pc'[s] = "component" /\ made' = made
      BY <1>2 DEF graphVars, GraphInv, ShapeInv, Mine
    <2>6. made[s] = {}
      BY DEF Unlink, GraphInv, SessionInv, HoldInv
    <2>7. KnownInv(s)' /\ MadeInv(s)'
      BY <2>1, <2>5, <2>6, FS_EmptySet DEF KnownInv, MadeInv, EdgeLike, SameRow, SameEnds
    <2>8. HoldInv(s)'
      BY <2>2, <2>3, <2>5, <2>6 DEF HoldInv
    <2> QED
      BY <2>4, <2>5, <2>7, <2>8, Frame DEF SessionInv
  <1> QED
    BY <1>1, <1>2 DEF Unlink

LEMMA LookForReversalsKeeps ==
    ASSUME GraphInv, NEW s \in Session, LookForReversals(s)
    PROVE  GraphInv'
  <1>1. CASE EndTx(s) /\ UNCHANGED graphVars
    BY <1>1, EndWithoutWriting
  <1>2. CASE /\ pc' = [pc EXCEPT ![s] = "reversal"]
             /\ UNCHANGED <<graphVars, holder, verb, want, closure, made, gone, comp, todo>>
    <2>1. ShapeInv' /\ Apart(s)
      BY <1>2 DEF GraphInv, ShapeInv, Apart
    <2>2. edges' = edges /\ lastEdge' = lastEdge /\ pc'[s] = "reversal" /\ Mine(s)' = Mine(s)
      BY <1>2 DEF graphVars, GraphInv, ShapeInv, Mine
    <2>3. KnownInv(s)' /\ MadeInv(s)'
      BY <1>2, <2>2 DEF KnownInv, MadeInv, GraphInv, SessionInv, EdgeLike, SameRow, SameEnds
    <2>4. HoldInv(s)'
      BY <1>2, <2>2 DEF LookForReversals, HoldInv, GraphInv, SessionInv
    <2> QED
      BY <2>1, <2>2, <2>3, <2>4, Frame DEF SessionInv
  <1> QED
    BY <1>1, <1>2 DEF LookForReversals

LEMMA PairReversalKeeps ==
    ASSUME GraphInv, NEW s \in Session, NEW l \in Line, PairReversal(s, l)
    PROVE  GraphInv'
  <1> DEFINE r == Reversal[l]
             d == IF l \in Debit THEN l ELSE r
             c == IF l \in Debit THEN r ELSE l
             e == [id |-> 0, debit |-> d, credit |-> c,
                   amount |-> Min({Face[d], Face[c]}), group |-> 0]
  <1>1. /\ edges' = edges /\ lastEdge' = lastEdge /\ pc' = pc /\ verb' = verb /\ want' = want
        /\ closure' = closure /\ gone' = gone /\ comp' = comp
        /\ DOMAIN todo' = Session /\ todo'[s] = todo[s] \ {l}
        /\ \A t \in Session \ {s} : todo'[t] = todo[t]
    BY DEF PairReversal, graphVars, GraphInv, ShapeInv
  <1>2. pc[s] = "reversal" /\ l \in Mine(s)
    BY DEF PairReversal, NextTodo, GraphInv, SessionInv, HoldInv
  <1>3. /\ holder' \in [Line -> Session \cup {Nil}] /\ Mine(s) \subseteq Mine(s)'
        /\ \A t \in Session \ {s}, k \in Line : holder[k] = t <=> holder'[k] = t
        /\ made' = made \/ (/\ made' = [made EXCEPT ![s] = @ \cup {e}]
                            /\ r \in Line /\ r \in Mine(s)')
    <2>1. CASE UNCHANGED <<holder, made>>
      BY <2>1 DEF GraphInv, ShapeInv, Mine
    <2>2. CASE /\ r # Nil /\ holder[r] \in {Nil, s}
               /\ holder' = [holder EXCEPT ![r] = s]
               /\ made' = IF ~Unapplied(s, r) THEN made ELSE [made EXCEPT ![s] = @ \cup {e}]
      <3>1. r \in Line
        BY <2>2, LineAssumption
      <3> HIDE DEF e, r
      <3>2. /\ holder' \in [Line -> Session \cup {Nil}] /\ Mine(s)' = Mine(s) \cup {r}
            /\ \A t \in Session \ {s}, k \in Line : holder[k] = t <=> holder'[k] = t
        BY <2>2, <3>1, GrantKeepsOthers
      <3> QED
        BY <2>2, <3>1, <3>2
    <2> QED
      BY <2>1, <2>2 DEF PairReversal
  <1>4. r \in Line /\ r \in Mine(s)' => EdgeLike(e) /\ EndsIn(e, Mine(s)')
    BY <1>2, <1>3 DEF EdgeLike, EndsIn
  <1> HIDE DEF e, r
  <1>5. /\ DOMAIN made' = Session
        /\ \A t \in Session \ {s} : made'[t] = made[t]
        /\ made'[s] = made[s] \/ (made'[s] = made[s] \cup {e} /\ r \in Line /\ r \in Mine(s)')
    BY <1>3 DEF GraphInv, ShapeInv
  <1>6. ShapeInv' /\ Apart(s)
    BY <1>1, <1>3, <1>5 DEF GraphInv, ShapeInv, Apart
  <1>7. KnownInv(s)'
    BY <1>1 DEF KnownInv, GraphInv, SessionInv, EdgeLike, SameRow, SameEnds
  <1>8. MadeInv(s)'
    <2>1. IsFiniteSet(made'[s])
      BY <1>5, FS_AddElement DEF GraphInv, SessionInv, MadeInv
    <2> QED
      BY <2>1, <1>4, <1>5 DEF GraphInv, SessionInv, MadeInv, EdgeLike
  <1>9. HoldInv(s)'
    <2>1. HoldInv(s)
      BY DEF GraphInv, SessionInv
    <2>2. \A f \in made'[s] \cup gone'[s] : EndsIn(f, Mine(s)')
      BY <1>1, <1>2, <1>3, <1>4, <1>5, <2>1 DEF HoldInv, EndsIn
    <2> QED
      BY <1>1, <1>2, <1>3, <2>1, <2>2 DEF HoldInv
  <1> QED
    BY <1>1, <1>6, <1>7, <1>8, <1>9, Frame DEF SessionInv

-----------------------------------------------------------------------------
(* The commit.                                                             *)

\* Row ids tell the rows of one transaction apart: the rank of a row among
\* them is strictly monotone.
LEMMA RanksDiffer ==
    ASSUME NEW E, IsFiniteSet(E), \A x \in E : EdgeLike(x),
           NEW e \in E, NEW f \in E, ~SameEnds(e, f)
    PROVE  Cardinality(UpTo(E, e)) # Cardinality(UpTo(E, f))
  <1>1. \A x \in E : x.debit \in Nat /\ x.credit \in Nat
    BY LineAssumption DEF EdgeLike
  <1>2. \A x \in E : IsFiniteSet(UpTo(E, x))
    <2> SUFFICES ASSUME NEW x \in E PROVE IsFiniteSet(UpTo(E, x))
      OBVIOUS
    <2>1. UpTo(E, x) \in SUBSET E
      BY DEF UpTo
    <2> QED
      BY <2>1, FS_Subset
  <1>3. e \in UpTo(E, e) /\ f \in UpTo(E, f)
    BY <1>1 DEF UpTo
  <1>4. ASSUME NEW x \in E, NEW y \in E, ~SameEnds(x, y), y \notin UpTo(E, x)
        PROVE  Cardinality(UpTo(E, x)) # Cardinality(UpTo(E, y))
    <2>1. UpTo(E, x) \in SUBSET UpTo(E, y) /\ y \in UpTo(E, y)
      BY <1>1, <1>4 DEF UpTo
    <2> QED
      BY <1>2, <1>4, <2>1, FS_Subset
  <1>5. f \notin UpTo(E, e) \/ e \notin UpTo(E, f)
    BY <1>1 DEF UpTo, SameEnds
  <1> QED
    BY <1>4, <1>5 DEF SameEnds

LEMMA RankType ==
    ASSUME NEW E, IsFiniteSet(E), \A x \in E : EdgeLike(x), NEW e \in E
    PROVE  Cardinality(UpTo(E, e)) \in 1..Cardinality(E)
  <1>1. e.debit \in Nat /\ e.credit \in Nat
    BY LineAssumption DEF EdgeLike
  <1>2. UpTo(E, e) \in SUBSET E /\ e \in UpTo(E, e)
    BY <1>1 DEF UpTo
  <1>3. /\ IsFiniteSet(UpTo(E, e)) /\ Cardinality(UpTo(E, e)) <= Cardinality(E)
    BY <1>2, FS_Subset
  <1>4. Cardinality(UpTo(E, e)) \in Nat /\ Cardinality(E) \in Nat
    BY <1>3, FS_CardinalityType
  <1>5. Cardinality(UpTo(E, e)) # 0
    BY <1>2, <1>3, FS_EmptySet
  <1> QED
    BY <1>3, <1>4, <1>5

NewId(s, e) == lastEdge + Cardinality(UpTo(made[s], e))

\* Where the rows after a commit come from, and what becomes of those before.
LEMMA Written ==
    ASSUME GraphInv, NEW s \in Session, NEW G, Write(s, G)
    PROVE  /\ \A h \in edges' : EdgeLike(h) /\
                 \/ \E e \in edges : h.id = e.id /\ h.amount = e.amount /\ SameEnds(h, e)
                 \/ \E e \in made[s] : h.id = NewId(s, e) /\ SameEnds(h, e)
           /\ \A e \in edges : e \notin made[s] /\ (\A f \in gone[s] : ~SameRow(e, f)) =>
                 \E h \in edges' : h.id = e.id /\ h.amount = e.amount /\ SameEnds(h, e)
  <1> DEFINE Old == Visible(s) \ made[s]
             New == Numbered(made[s])
             F(e) == [e EXCEPT !.group = Coalesce(@, Max({G[e.debit], G[e.credit]}))]
  <1>1. edges' = {F(e) : e \in Old \cup New}
    BY DEF Write, AttachPartials
  <1>2. \A e : EdgeLike(e) =>
           EdgeLike(F(e)) /\ F(e).id = e.id /\ F(e).amount = e.amount /\ SameEnds(F(e), e)
    BY DEF EdgeLike, SameEnds
  <1>3. \A e \in Old : e \in edges /\ EdgeLike(e)
    BY DEF Visible, GraphInv, RowInv
  <1>4. \A h \in New : EdgeLike(h) /\ \E e \in made[s] : h.id = NewId(s, e) /\ SameEnds(h, e)
    <2> SUFFICES ASSUME NEW e \in made[s]
                 PROVE  LET h == [e EXCEPT !.id = NewId(s, e)]
                        IN  EdgeLike(h) /\ h.id = NewId(s, e) /\ SameEnds(h, e)
      BY DEF Numbered, NewId
    <2>1. EdgeLike(e) /\ NewId(s, e) \in Nat
      <3>1. Cardinality(UpTo(made[s], e)) \in 1..Cardinality(made[s])
        BY RankType DEF GraphInv, SessionInv, MadeInv
      <3>2. Cardinality(made[s]) \in Nat
        BY FS_CardinalityType DEF GraphInv, SessionInv, MadeInv
      <3> QED
        BY <3>1, <3>2 DEF NewId, GraphInv, RowInv, SessionInv, MadeInv
    <2> HIDE DEF NewId
    <2> QED
      BY <2>1 DEF EdgeLike, SameEnds
  <1>5. \A e \in edges : e \notin made[s] /\ (\A f \in gone[s] : ~SameRow(e, f)) => e \in Old
    BY DEF Visible
  <1> HIDE DEF Old, New, F
  <1>6. \A h \in edges' : EdgeLike(h) /\
                 \/ \E e \in edges : h.id = e.id /\ h.amount = e.amount /\ SameEnds(h, e)
                 \/ \E e \in made[s] : h.id = NewId(s, e) /\ SameEnds(h, e)
    <2> SUFFICES ASSUME NEW e \in Old \cup New
                 PROVE  EdgeLike(F(e)) /\
                          \/ \E x \in edges : F(e).id = x.id /\ F(e).amount = x.amount /\ SameEnds(F(e), x)
                          \/ \E x \in made[s] : F(e).id = NewId(s, x) /\ SameEnds(F(e), x)
      BY <1>1
    <2>1. CASE e \in Old
      BY <2>1, <1>2, <1>3
    <2>2. CASE e \in New
      BY <2>2, <1>2, <1>4 DEF SameEnds
    <2> QED
      BY <2>1, <2>2
  <1>7. ASSUME NEW e \in edges, e \notin made[s], \A f \in gone[s] : ~SameRow(e, f)
        PROVE  \E h \in edges' : h.id = e.id /\ h.amount = e.amount /\ SameEnds(h, e)
    BY <1>1, <1>2, <1>3, <1>5, <1>7
  <1> QED
    BY <1>6, <1>7

LEMMA WriteKeeps ==
    ASSUME GraphInv, NEW s \in Session, NEW G, Write(s, G)
    PROVE  GraphInv'
  <1>1. /\ ShapeInv' /\ Apart(s) /\ SessionInv(s)'
    BY EndKeeps, IdleSession DEF Write
  <1>2. \A e \in made[s] : NewId(s, e) \in (lastEdge + 1)..lastEdge'
    <2> SUFFICES ASSUME NEW e \in made[s] PROVE NewId(s, e) \in (lastEdge + 1)..lastEdge'
      OBVIOUS
    <2>1. Cardinality(UpTo(made[s], e)) \in 1..Cardinality(made[s])
      BY RankType DEF GraphInv, SessionInv, MadeInv
    <2>2. Cardinality(made[s]) \in Nat /\ lastEdge \in Nat
      BY FS_CardinalityType DEF GraphInv, RowInv, SessionInv, MadeInv
    <2> QED
      BY <2>1, <2>2 DEF Write, NewId
  <1>3. lastEdge' \in Nat /\ lastEdge' >= lastEdge /\ lastEdge \in Nat
    <2>1. Cardinality(made[s]) \in Nat /\ lastEdge \in Nat
      BY FS_CardinalityType DEF GraphInv, RowInv, SessionInv, MadeInv
    <2> QED
      BY <2>1 DEF Write
  <1>4. \A e, f \in made[s] : NewId(s, e) = NewId(s, f) => SameEnds(e, f)
    <2> SUFFICES ASSUME NEW e \in made[s], NEW f \in made[s], NewId(s, e) = NewId(s, f)
                 PROVE  SameEnds(e, f)
      OBVIOUS
    <2>1. /\ Cardinality(UpTo(made[s], e)) \in 1..Cardinality(made[s])
          /\ Cardinality(UpTo(made[s], f)) \in 1..Cardinality(made[s])
      BY RankType DEF GraphInv, SessionInv, MadeInv
    <2>2. Cardinality(made[s]) \in Nat
      BY FS_CardinalityType DEF GraphInv, SessionInv, MadeInv
    <2>3. Cardinality(UpTo(made[s], e)) = Cardinality(UpTo(made[s], f))
      BY <1>3, <2>1, <2>2 DEF NewId
    <2> QED
      BY <2>3, RanksDiffer DEF GraphInv, SessionInv, MadeInv
  <1>5. \A e \in edges : EdgeLike(e) /\ e.id \in 1..lastEdge
    BY DEF GraphInv, RowInv
  <1> HIDE DEF NewId
  <1>6. \A h \in edges' : EdgeLike(h) /\
           \/ \E e \in edges : h.id = e.id /\ SameEnds(h, e)
           \/ \E e \in made[s] : h.id = NewId(s, e) /\ SameEnds(h, e)
    BY Written
  <1>7. RowInv'
    <2>1. \A h \in edges' : EdgeLike(h) /\ h.id \in 1..lastEdge'
      BY <1>2, <1>3, <1>5, <1>6 DEF EdgeLike
    <2>2. ASSUME NEW h \in edges', NEW k \in edges', h.id = k.id PROVE SameEnds(h, k)
      <3>1. \A e \in edges, f \in made[s] : e.id # NewId(s, f)
        BY <1>2, <1>3, <1>5
      <3>2. \A e, f \in edges : e.id = f.id => SameEnds(e, f)
        BY DEF GraphInv, RowInv, SameRow
      <3> QED
        BY <1>4, <1>6, <2>2, <3>1, <3>2 DEF SameEnds
    <2> QED
      BY <1>3, <2>1, <2>2 DEF RowInv, SameRow, EdgeLike, SameEnds
  <1>8. ASSUME NEW t \in Session, t # s PROVE SessionInv(t)'
    <2>1. Mine(t)' = Mine(t)
      BY <1>1, <1>8 DEF Apart, Mine
    <2>2. KnownInv(t)'
      <3> SUFFICES ASSUME NEW f \in closure[t] \cup gone[t]
                   PROVE  /\ EdgeLike(f) /\ f.id \in 1..lastEdge'
                          /\ \A h \in edges' : h.id = f.id => SameEnds(h, f)
        BY <1>1, <1>8 DEF Apart, KnownInv, SameRow, EdgeLike, SameEnds
      <3>1. /\ EdgeLike(f) /\ f.id \in 1..lastEdge
            /\ \A e \in edges : e.id = f.id => SameEnds(e, f)
        BY <1>8 DEF GraphInv, SessionInv, KnownInv, SameRow
      <3>2. \A e \in made[s] : f.id # NewId(s, e)
        BY <1>2, <1>3, <3>1
      <3>3. f.id \in 1..lastEdge'
        BY <1>3, <3>1
      <3> QED
        BY <1>6, <3>1, <3>2, <3>3 DEF SameEnds
    <2>3. MadeInv(t)'
      BY <1>1, <1>8 DEF Apart, GraphInv, SessionInv, MadeInv, EdgeLike
    <2>4. HoldInv(t)'
      BY <1>1, <1>8, <2>1 DEF Apart, GraphInv, SessionInv, HoldInv, EndsIn
    <2> QED
      BY <2>2, <2>3, <2>4 DEF SessionInv
  <1> QED
    BY <1>1, <1>7, <1>8 DEF GraphInv

-----------------------------------------------------------------------------
LEMMA InitGraph == Init => GraphInv
  <1> SUFFICES ASSUME Init PROVE GraphInv
    OBVIOUS
  <1>1. NoVerb \in Verb
    BY DEF NoVerb, Verb
  <1>2. ShapeInv
    BY <1>1 DEF Init, ShapeInv
  <1>3. RowInv
    BY DEF Init, RowInv
  <1>4. ASSUME NEW s \in Session PROVE SessionInv(s)
    BY FS_EmptySet DEF Init, SessionInv, KnownInv, MadeInv, HoldInv
  <1> QED
    BY <1>2, <1>3, <1>4 DEF GraphInv

LEMMA CommitWrites ==
    ASSUME NEW s, CommitLink(s) \/ CommitUnlink(s)
    PROVE  /\ \E G : Write(s, G)
           /\ Write(s, ComponentGroup(s)) \/ Write(s, ReversalGroup(s))
  BY DEF CommitLink, CommitUnlink

LEMMA StepKeeps == GraphInv /\ [Next]_vars => GraphInv'
  <1> SUFFICES ASSUME GraphInv, [Next]_vars PROVE GraphInv'
    OBVIOUS
  <1>1. CASE UNCHANGED vars
    BY <1>1 DEF vars, graphVars, sessionVars, GraphInv, ShapeInv, RowInv, SessionInv,
                KnownInv, MadeInv, HoldInv, Mine, EndsIn, EdgeLike, SameRow, SameEnds
  <1>2. ASSUME NEW s \in Session, Start(s) PROVE GraphInv'
    BY <1>2, StartKeeps
  <1>3. ASSUME NEW s \in Session, Work(s) PROVE GraphInv'
    BY <1>3, LinkKeeps, UnlinkKeeps, LookForReversalsKeeps, CommitWrites, WriteKeeps DEF Work
  <1>4. ASSUME NEW s \in Session, Locking(s) PROVE GraphInv'
    BY <1>4, LockLineKeeps, PairReversalKeeps DEF Locking
  <1>5. ASSUME NEW s \in Session, Abort(s) PROVE GraphInv'
    BY <1>5, EndWithoutWriting DEF Abort
  <1> QED
    BY <1>1, <1>2, <1>3, <1>4, <1>5 DEF Next, Idle

\* The lock protocol of the reconcile verbs, as an inductive invariant: a verb
\* that is to write holds the lines of every row it writes, and of every line
\* of the component it stamps.
THEOREM ProtocolKept == Spec => []GraphInv
  <1> QED
    BY InitGraph, StepKeeps, PTL DEF Spec

\* A commit changes nothing on a line of another session.
LEMMA CommitSparesOthers ==
    ASSUME GraphInv, NEW t \in Session, CommitLink(t) \/ CommitUnlink(t),
           NEW l \in Line, holder[l] # t
    PROVE  SameEdges(edges, edges', l) /\ flag'[l] = flag[l]
  <1>1. \A e \in made[t] \cup gone[t] : l # e.debit /\ l # e.credit
    BY DEF CommitLink, CommitUnlink, GraphInv, SessionInv, HoldInv, EndsIn, Mine
  <1>2. l \notin comp[t]
    BY DEF CommitLink, CommitUnlink, GraphInv, SessionInv, HoldInv, Mine
  <1>3. PICK G : Write(t, G)
    BY CommitWrites
  <1>4. ASSUME NEW e \in On(edges, l)
        PROVE  \E h \in On(edges', l) : h.id = e.id /\ h.amount = e.amount
    <2>1. e \in edges /\ l \in {e.debit, e.credit}
      BY DEF On
    <2>2. \A f \in gone[t] : ~SameRow(e, f)
      BY <1>1, <2>1 DEF GraphInv, SessionInv, KnownInv, SameEnds
    <2>3. e \notin made[t]
      BY <1>1, <2>1
    <2>4. PICK h \in edges' : h.id = e.id /\ h.amount = e.amount /\ SameEnds(h, e)
      BY <1>3, <2>1, <2>2, <2>3, Written
    <2> QED
      BY <2>1, <2>4 DEF On, SameEnds
  <1>5. ASSUME NEW h \in On(edges', l)
        PROVE  \E e \in On(edges, l) : e.id = h.id /\ e.amount = h.amount
    <2>1. h \in edges' /\ l \in {h.debit, h.credit}
      BY DEF On
    <2>2. \/ \E e \in edges : h.id = e.id /\ h.amount = e.amount /\ SameEnds(h, e)
          \/ \E e \in made[t] : SameEnds(h, e)
      BY <1>3, <2>1, Written
    <2> QED
      BY <1>1, <2>1, <2>2 DEF On, SameEnds
  <1>6. SameEdges(edges, edges', l)
    BY <1>4, <1>5 DEF SameEdges
  <1>7. flag'[l] = flag[l]
    <2>1. l \notin Ends(gone[t]) /\ l \notin Ends(made[t])
      BY <1>1, InEnds
    <2>2. Stamp(t, l) = flag[l]
      BY <2>1 DEF Stamp
    <2>3. CASE Write(t, ComponentGroup(t))
      BY <1>2, <2>2, <2>3 DEF Write, ComponentGroup, Coalesce
    <2>4. CASE Write(t, ReversalGroup(t))
      <3> DEFINE full == {e \in made[t] : Face[e.debit] = Face[e.credit]}
      <3>1. l \notin Ends(full)
        BY <1>1, InEnds
      <3>2. ReversalGroup(t)[l] = 0
        BY <3>1 DEF ReversalGroup
      <3> QED
        BY <2>2, <2>4, <3>2 DEF Write, Coalesce
    <2> QED
      BY <2>3, <2>4, CommitWrites
  <1> QED
    BY <1>6, <1>7

\* "Concurrent reconciles over a shared line serialize on the line lock", for
\* any lines, faces, pairs, reversals and number of sessions: no step of any
\* session changes the partials or the stamp of a line another one holds.
THEOREM HeldStable == Spec => HeldIsStable
  <1> DEFINE Stable == \A l \in Line, s \in Session : holder[l] = s /\ holder'[l] = s =>
                          SameEdges(edges, edges', l) /\ flag'[l] = flag[l]
  <1>1. ASSUME GraphInv, [Next]_vars PROVE Stable
    <2> SUFFICES ASSUME NEW l \in Line, NEW s \in Session, holder[l] = s, holder'[l] = s
                 PROVE  SameEdges(edges, edges', l) /\ flag'[l] = flag[l]
      OBVIOUS
    <2>1. CASE UNCHANGED graphVars
      BY <2>1 DEF graphVars, SameEdges, On
    <2>2. ASSUME NEW t \in Session, CommitLink(t) \/ CommitUnlink(t)
          PROVE  SameEdges(edges, edges', l) /\ flag'[l] = flag[l]
      <3>1. holder'[l] # t
        BY <1>1, <2>2, CommitWrites, EndKeeps DEF Write
      <3> QED
        BY <1>1, <2>2, <3>1, CommitSparesOthers
    <2>3. \/ UNCHANGED graphVars
          \/ \E t \in Session : CommitLink(t) \/ CommitUnlink(t)
      BY <1>1 DEF Next, Idle, Start, Work, Locking, StartLink, StartUnlinkPair, StartUnlink,
                  Begin, Link, Unlink, NothingToDo, LookForReversals, LockLine,
                  PairReversal, Abort, vars
    <2> QED
      BY <2>1, <2>2, <2>3
  <1>2. [][Stable]_vars <=> HeldIsStable
    BY DEF HeldIsStable
  <1> HIDE DEF Stable
  <1>3. GraphInv /\ [Next]_vars => [Stable]_vars
    BY <1>1
  <1> QED
    BY <1>2, <1>3, ProtocolKept, PTL DEF Spec

-----------------------------------------------------------------------------
(* The component query.                                                    *)

Grow(E, r) == r \cup Ends({e \in E : Ends({e}) \cap r # {}})
Grown(R, E, seeds) == [n \in Nat |-> IF n = 0 THEN seeds ELSE Grow(E, R[n - 1])]
Reach(E, seeds) == CHOOSE R : R = Grown(R, E, seeds)

LEMMA ComponentIs ==
    ASSUME NEW E, NEW seeds
    PROVE  Component(E, seeds) = Reach(E, seeds)[Cardinality(Line)]
BY DEF Component, Reach, Grown, Grow

\* The recursion is well defined.
LEMMA ReachExists ==
    ASSUME NEW E, NEW seeds
    PROVE  \E R : R = Grown(R, E, seeds)
<1> DEFINE Turn(s, m) == IF m = 0 THEN seeds ELSE Grow(E, s[m - 1])
           Upto(s, n) == \A m \in 0..n : s[m] = Turn(s, m)
           Missed == {n \in Nat : ~\E s : Upto(s, n)}
           Nth(n) == CHOOSE s : Upto(s, n)
<1>1. Missed = {}
  <2> SUFFICES ASSUME Missed # {} PROVE FALSE
    OBVIOUS
  <2>1. PICK n \in Missed : \A m \in Missed : n <= m
    BY SmallestNumber
  <2>2. n # 0
    <3>1. Upto([m \in Nat |-> seeds], 0)
      OBVIOUS
    <3> QED
      BY <2>1, <3>1
  <2>3. n - 1 \in Nat /\ n - 1 \notin Missed /\ n \in Nat
    <3>1. n \in Nat
      BY <2>1
    <3> HIDE DEF Missed
    <3> QED
      BY <2>1, <2>2, <3>1
  <2>4. PICK s : Upto(s, n - 1)
    BY <2>3
  <2> DEFINE t == [m \in Nat |-> IF m = n THEN Grow(E, s[n - 1]) ELSE s[m]]
  <2>5. ASSUME NEW m \in 0..n PROVE t[m] = Turn(t, m)
    <3>1. m # 0 => m - 1 \in 0..(n - 1) /\ t[m - 1] = s[m - 1]
      BY <2>3
    <3>2. Turn(t, m) = Turn(s, m)
      BY <3>1
    <3>3. CASE m = n
      BY <2>2, <3>2, <3>3
    <3>4. CASE m # n
      <4>1. m \in 0..(n - 1)
        BY <2>3, <3>4
      <4> QED
        BY <2>4, <3>2, <3>4, <4>1
    <3> QED
      BY <3>3, <3>4
  <2> HIDE DEF t
  <2> QED
    BY <2>1, <2>5
<1>2. \A n \in Nat : Upto(Nth(n), n)
  BY <1>1
<1>3. ASSUME NEW n \in Nat, NEW s, NEW t, Upto(s, n), Upto(t, n) PROVE s[n] = t[n]
  <2> DEFINE D == {m \in Nat : m <= n /\ s[m] # t[m]}
  <2> SUFFICES ASSUME D # {} PROVE FALSE
    OBVIOUS
  <2>1. PICK m \in D : \A k \in D : m <= k
    BY SmallestNumber
  <2>2. m \in 0..n /\ s[m] = Turn(s, m) /\ t[m] = Turn(t, m)
    BY <1>3, <2>1
  <2>3. m # 0 /\ m - 1 \in Nat /\ m - 1 \notin D
    <3>1. m # 0
      BY <2>1, <2>2
    <3>2. m \in Nat
      BY <2>1
    <3> HIDE DEF D
    <3> QED
      BY <2>1, <3>1, <3>2
  <2>4. s[m - 1] = t[m - 1]
    BY <2>2, <2>3
  <2> QED
    BY <2>1, <2>2, <2>3, <2>4
<1> DEFINE R == [n \in Nat |-> Nth(n)[n]]
<1> HIDE DEF Nth
<1>4. ASSUME NEW n \in Nat PROVE R[n] = Turn(R, n)
  <2>1. Nth(n)[n] = Turn(Nth(n), n)
    BY <1>2
  <2>2. ASSUME n # 0 PROVE Nth(n)[n - 1] = Nth(n - 1)[n - 1]
    <3>1. n - 1 \in Nat /\ Upto(Nth(n), n - 1)
      BY <1>2, <2>2
    <3> QED
      BY <1>2, <1>3, <3>1
  <2> QED
    BY <2>1, <2>2
<1>5. R = Grown(R, E, seeds)
  BY <1>4 DEF Grown
<1> QED
  BY <1>5

LEMMA ReachSteps ==
    ASSUME NEW E, NEW seeds
    PROVE  /\ Reach(E, seeds)[0] = seeds
           /\ \A n \in Nat : Reach(E, seeds)[n + 1] = Grow(E, Reach(E, seeds)[n])
<1>1. Reach(E, seeds) = Grown(Reach(E, seeds), E, seeds)
  BY ReachExists DEF Reach
<1> HIDE DEF Reach
<1>2. Reach(E, seeds)[0] = seeds
  BY <1>1 DEF Grown
<1>3. ASSUME NEW n \in Nat PROVE Reach(E, seeds)[n + 1] = Grow(E, Reach(E, seeds)[n])
  <2>1. n + 1 \in Nat /\ n + 1 # 0 /\ (n + 1) - 1 = n
    OBVIOUS
  <2> QED
    BY <1>1, <2>1 DEF Grown
<1> QED
  BY <1>2, <1>3

\* No edge of E leads out of X.
Closed(E, X) == \A e \in E : e.debit \in X <=> e.credit \in X

LEMMA GrowClosed ==
    ASSUME NEW E, NEW r
    PROVE  /\ r \subseteq Grow(E, r)
           /\ Grow(E, r) = r <=> Closed(E, r)
           /\ \A X : r \subseteq X /\ Closed(E, X) => Grow(E, r) \subseteq X
<1>1. \A e : e.debit \in Ends({e}) /\ e.credit \in Ends({e}) /\ Ends({e}) = {e.debit, e.credit}
  BY EndsOfOne
<1>2. \A l : l \in Grow(E, r) <=>
           l \in r \/ \E e \in E : {e.debit, e.credit} \cap r # {} /\ l \in {e.debit, e.credit}
  <2> DEFINE F == {e \in E : Ends({e}) \cap r # {}}
  <2>1. \A l : l \in Ends(F) <=> \E e \in F : l \in {e.debit, e.credit}
    BY InEnds
  <2>2. \A e : e \in F <=> e \in E /\ {e.debit, e.credit} \cap r # {}
    BY <1>1
  <2>3. Grow(E, r) = r \cup Ends(F)
    BY DEF Grow
  <2> HIDE DEF F
  <2> QED
    BY <2>1, <2>2, <2>3
<1> HIDE DEF Grow
<1> QED
  BY <1>2 DEF Closed

\* What component_line_ids finds: the least set that holds the seeds and that
\* no edge leads out of.  As many rounds as there are lines are enough.
LEMMA ComponentIsLeast ==
    ASSUME NEW E, NEW seeds \in SUBSET Line, Ends(E) \subseteq Line
    PROVE  /\ seeds \subseteq Component(E, seeds)
           /\ Component(E, seeds) \subseteq Line
           /\ Closed(E, Component(E, seeds))
           /\ \A X : seeds \subseteq X /\ Closed(E, X) => Component(E, seeds) \subseteq X
<1> DEFINE R == Reach(E, seeds)
           N == Cardinality(Line)
<1>1. R[0] = seeds /\ \A n \in Nat : R[n + 1] = Grow(E, R[n])
  BY ReachSteps
<1> HIDE DEF R
<1>2. ASSUME NEW X, seeds \subseteq X, Closed(E, X) PROVE \A n \in Nat : R[n] \subseteq X
  <2> DEFINE D == {n \in Nat : ~(R[n] \subseteq X)}
  <2> SUFFICES ASSUME D # {} PROVE FALSE
    OBVIOUS
  <2>1. PICK n \in D : \A m \in D : n <= m
    BY SmallestNumber
  <2>2. n # 0
    BY <1>1, <1>2, <2>1
  <2>3. n - 1 \in Nat /\ n - 1 \notin D /\ (n - 1) + 1 = n
    <3>1. n \in Nat
      BY <2>1
    <3> HIDE DEF D
    <3> QED
      BY <2>1, <2>2, <3>1
  <2>4. R[n] = Grow(E, R[n - 1])
    BY <1>1, <2>3
  <2> QED
    BY <1>2, <2>1, <2>3, <2>4, GrowClosed
<1>3. \A n \in Nat : R[n] \subseteq Line
  <2>1. Closed(E, Line)
    BY InEnds DEF Closed
  <2> QED
    BY <1>2, <2>1
<1>4. \A n \in Nat : IsFiniteSet(R[n]) /\ Cardinality(R[n]) \in Nat /\ Cardinality(R[n]) <= N
  BY <1>3, LineAssumption, FS_Subset, FS_CardinalityType
<1>5. N \in Nat
  BY LineAssumption, FS_CardinalityType
<1> HIDE DEF N
<1>6. \E n \in 0..N : R[n + 1] = R[n]
  <2> SUFFICES ASSUME \A n \in 0..N : R[n + 1] # R[n] PROVE FALSE
    OBVIOUS
  <2> DEFINE D == {n \in Nat : n <= N + 1 /\ Cardinality(R[n]) < n}
  <2>1. N + 1 \in D
    BY <1>4, <1>5
  <2>2. PICK n \in D : \A m \in D : n <= m
    BY <2>1, SmallestNumber
  <2>3. n # 0
    BY <1>4, <2>2
  <2>4. n - 1 \in 0..N /\ n - 1 \in Nat /\ n - 1 \notin D /\ (n - 1) + 1 = n
    <3>1. n \in Nat /\ n <= N + 1
      BY <2>2
    <3> HIDE DEF D
    <3> QED
      BY <1>5, <2>2, <2>3, <3>1
  <2>5. Cardinality(R[n - 1]) >= n - 1
    BY <1>4, <1>5, <2>4
  <2>6. R[n] # R[n - 1] /\ R[n - 1] \subseteq R[n]
    BY <1>1, <2>4, GrowClosed
  <2>7. Cardinality(R[n - 1]) <= Cardinality(R[n]) /\ Cardinality(R[n - 1]) # Cardinality(R[n])
    BY <1>4, <2>2, <2>6, FS_Subset
  <2>8. Cardinality(R[n]) < n /\ n \in Nat
    BY <2>2
  <2> QED
    BY <1>4, <2>4, <2>5, <2>7, <2>8
<1>7. PICK n \in 0..N : R[n + 1] = R[n]
  BY <1>6
<1>8. Closed(E, R[n])
  BY <1>1, <1>7, GrowClosed
<1>9. R[N] = R[n]
  <2> DEFINE D == {m \in Nat : n <= m /\ R[m] # R[n]}
  <2> SUFFICES ASSUME D # {} PROVE FALSE
    BY <1>5
  <2>1. PICK m \in D : \A k \in D : m <= k
    BY SmallestNumber
  <2>2. m - 1 \in Nat /\ m - 1 \notin D /\ (m - 1) + 1 = m /\ n <= m - 1
    <3>1. m \in Nat /\ n <= m /\ m # n
      BY <2>1
    <3> HIDE DEF D
    <3> QED
      BY <1>5, <2>1, <3>1
  <2>3. R[m - 1] = R[n]
    BY <2>2
  <2>4. R[m] = R[n]
    BY <1>1, <1>7, <2>2, <2>3
  <2> QED
    BY <2>1, <2>4
<1>10. Component(E, seeds) = R[N]
  BY ComponentIs DEF R, N
<1>11. seeds \subseteq R[n]
  <2> DEFINE D == {m \in Nat : ~(seeds \subseteq R[m])}
  <2> SUFFICES ASSUME D # {} PROVE FALSE
    BY <1>5
  <2>1. PICK m \in D : \A k \in D : m <= k
    BY SmallestNumber
  <2>2. m # 0
    BY <1>1, <2>1
  <2>3. m - 1 \in Nat /\ m - 1 \notin D /\ (m - 1) + 1 = m
    <3>1. m \in Nat
      BY <2>1
    <3> HIDE DEF D
    <3> QED
      BY <2>1, <2>2, <3>1
  <2>4. R[m - 1] \subseteq R[m]
    BY <1>1, <2>3, GrowClosed
  <2> QED
    BY <2>1, <2>3, <2>4
<1> QED
  BY <1>2, <1>3, <1>5, <1>8, <1>9, <1>10, <1>11

-----------------------------------------------------------------------------
(* What is left of a line.                                                 *)

Amounts(E, l) == [e \in On(E, l) |-> e.amount]

\* A finite set of rows with amounts.
Rows(E) == IsFiniteSet(E) /\ \A e \in E : e.amount \in Nat

LEMMA OnType ==
    ASSUME NEW E, Rows(E), NEW l
    PROVE  /\ On(E, l) \in SUBSET E /\ DOMAIN Amounts(E, l) = On(E, l)
           /\ Summable(Amounts(E, l))
           /\ \A e \in On(E, l) : Amounts(E, l)[e] = e.amount /\ Amounts(E, l)[e] >= 0
<1>1. On(E, l) \in SUBSET E
  BY DEF On
<1>2. IsFiniteSet(On(E, l))
  BY <1>1, FS_Subset DEF Rows
<1> QED
  BY <1>1, <1>2 DEF Amounts, Summable, Rows

LEMMA ResidualIs ==
    ASSUME NEW E, NEW l PROVE Residual(E, l) = Face[l] - SumFunction(Amounts(E, l))
BY DEF Residual, Amounts

LEMMA ResidualType ==
    ASSUME NEW E, Rows(E), NEW l \in Line
    PROVE  Residual(E, l) \in Int /\ Residual(E, l) <= Face[l] /\ Face[l] \in Nat /\ Face[l] > 0
<1>1. Face[l] \in Nat /\ Face[l] > 0
  BY LineAssumption
<1>2. SumFunction(Amounts(E, l)) \in Int
  BY OnType, SumType
<1>3. SumFunction(Amounts(E, l)) >= 0
  BY OnType, SumNonNegative
<1> QED
  BY <1>1, <1>2, <1>3, ResidualIs

LEMMA ResidualOfNone ==
    ASSUME NEW E, NEW l \in Line, On(E, l) = {}
    PROVE  Residual(E, l) = Face[l]
<1>1. SumFunction(Amounts(E, l)) = 0
  BY SumEmpty DEF Amounts
<1> QED
  BY <1>1, ResidualIs, LineAssumption

LEMMA ResidualOfSame ==
    ASSUME NEW E, NEW F, NEW l, On(E, l) = On(F, l)
    PROVE  Residual(E, l) = Residual(F, l)
BY DEF Residual

LEMMA ResidualOfLess ==
    ASSUME NEW E, NEW F, Rows(F), E \subseteq F, NEW l \in Line
    PROVE  Residual(F, l) <= Residual(E, l)
<1> DEFINE f == Amounts(F, l)
<1>1. On(E, l) \in SUBSET DOMAIN f
  BY DEF Amounts, On
<1>2. Amounts(E, l) = Restrict(f, On(E, l))
  BY <1>1 DEF Amounts, Restrict
<1>3. Summable(f) /\ \A e \in DOMAIN f : f[e] >= 0
  BY OnType
<1>4. SumFunction(f) \in Int
  BY <1>3, SumType
<1>5. Summable(Restrict(f, On(E, l)))
  BY <1>1, <1>3, PartSummable
<1>6. SumFunction(Restrict(f, On(E, l))) \in Int
  BY <1>5, SumType
<1>7. SumFunction(Restrict(f, On(E, l))) <= SumFunction(f)
  BY <1>1, <1>3, SumPartAtMost
<1> HIDE DEF f
<1> QED
  BY <1>2, <1>4, <1>6, <1>7, ResidualIs, LineAssumption DEF f

LEMMA ResidualOfOneMore ==
    ASSUME NEW E, Rows(E), NEW e, e \notin E, e.amount \in Nat, NEW l \in Line
    PROVE  /\ Rows(E \cup {e})
           /\ Residual(E \cup {e}, l) =
                 Residual(E, l) - (IF l \in {e.debit, e.credit} THEN e.amount ELSE 0)
<1>1. Rows(E \cup {e})
  BY FS_AddElement DEF Rows
<1>2. CASE l \in {e.debit, e.credit}
  <2> DEFINE f == Amounts(E, l)
             g == Amounts(E \cup {e}, l)
  <2>1. DOMAIN g = DOMAIN f \cup {e} /\ e \notin DOMAIN f /\ g[e] = e.amount
    BY <1>2 DEF Amounts, On
  <2>2. Agree(f, g, DOMAIN f)
    BY DEF Agree, Amounts, On
  <2>3. Summable(f) /\ Summable(g)
    BY <1>1, OnType
  <2>4. SumFunction(f) \in Int
    BY <2>3, SumType
  <2>5. SumFunction(g) = SumFunction(f) + g[e]
    <3> HIDE DEF f, g
    <3> QED
      BY <2>1, <2>2, <2>3, SumAdd
  <2> HIDE DEF f, g
  <2>6. Residual(E, l) = Face[l] - SumFunction(f) /\ Residual(E \cup {e}, l) = Face[l] - SumFunction(g)
    BY ResidualIs DEF f, g
  <2>7. Face[l] \in Nat
    BY LineAssumption
  <2> QED
    BY <1>1, <1>2, <2>1, <2>4, <2>5, <2>6, <2>7
<1>3. CASE l \notin {e.debit, e.credit}
  <2>1. On(E \cup {e}, l) = On(E, l)
    BY <1>3 DEF On
  <2>2. Residual(E \cup {e}, l) = Residual(E, l)
    BY <2>1, ResidualOfSame
  <2> QED
    BY <1>1, <1>3, <2>2, ResidualType
<1> QED
  BY <1>2, <1>3

\* Rows that are the same but for their ids and groups.
LEMMA ResidualOfCopy ==
    ASSUME NEW E, Rows(E), NEW F, NEW l, NEW h,
           On(F, l) = {h[e] : e \in On(E, l)},
           \A e, f \in On(E, l) : h[e] = h[f] => e = f,
           \A e \in On(E, l) : h[e].amount = e.amount
    PROVE  Residual(F, l) = Residual(E, l)
<1> DEFINE f == Amounts(E, l)
           g == Amounts(F, l)
<1>1. Summable(f) /\ DOMAIN f = On(E, l)
  BY OnType
<1>2. DOMAIN g = {h[e] : e \in DOMAIN f}
  BY <1>1 DEF Amounts
<1>3. \A e \in DOMAIN f : g[h[e]] = f[e]
  BY <1>1 DEF Amounts
<1>4. SumFunction(g) = SumFunction(f)
  <2> HIDE DEF f, g
  <2> QED
    BY <1>1, <1>2, <1>3, SumRename
<1> QED
  BY <1>4, ResidualIs


\* A row takes at least its amount from a line it is on.
LEMMA RowTakes ==
    ASSUME NEW E, Rows(E), NEW e \in E, NEW l \in Line, l \in {e.debit, e.credit}
    PROVE  Residual(E, l) <= Face[l] - e.amount
<1>1. e.amount \in Nat
  BY DEF Rows
<1>2. Rows({}) /\ Residual({}, l) = Face[l]
  BY FS_EmptySet, ResidualOfNone DEF Rows, On
<1>3. Residual({} \cup {e}, l) = Residual({}, l) - e.amount /\ Rows({} \cup {e})
  BY <1>1, <1>2, ResidualOfOneMore
<1>4. Residual(E, l) <= Residual({} \cup {e}, l)
  BY ResidualOfLess
<1> QED
  BY <1>2, <1>3, <1>4

\* A line that is wholly unapplied has no row.
LEMMA UnappliedIsFree ==
    ASSUME NEW E, Rows(E), \A e \in E : e.amount > 0, NEW l \in Line, Residual(E, l) = Face[l]
    PROVE  On(E, l) = {}
<1>1. Face[l] \in Nat
  BY LineAssumption
<1>2. ASSUME NEW e \in On(E, l) PROVE FALSE
  <2>1. e \in E /\ l \in {e.debit, e.credit} /\ e.amount \in Nat /\ e.amount > 0
    BY DEF On, Rows
  <2>2. Face[l] <= Face[l] - e.amount
    BY <2>1, RowTakes
  <2> QED
    BY <1>1, <2>1, <2>2
<1> QED
  BY <1>2

-----------------------------------------------------------------------------
(* What the rows say.                                                      *)

LedgerInv ==
    /\ IsFiniteSet(edges) /\ edges \subseteq Edge
    /\ \A e, f \in edges : SameRow(e, f) => e = f
    /\ groups \subseteq Nat /\ flag \in [Line -> Nat] /\ lastGroup \in Nat

\* What a verb keeps until its commit: a row it inserts has neither id nor
\* group yet, and is the only one it inserts between its two lines.
DraftInv(s) ==
    /\ closure[s] \subseteq Edge /\ gone[s] \subseteq Edge /\ made[s] \subseteq Edge
    /\ want[s] \subseteq Line /\ comp[s] \subseteq Line /\ todo[s] \subseteq Line
    /\ \A e \in made[s] : e.id = 0 /\ e.group = 0
    /\ \A e, f \in made[s] : SameEnds(e, f) => e = f
    /\ pc[s] = "reversal" =>
          \A e \in made[s] : e.amount = Min({Face[e.debit], Face[e.credit]})
    /\ pc[s] = "component" /\ verb[s].kind # "link" => made[s] = {}

\* Never applied beyond its face, and stamped only when nothing is left.
Sound(left, stamp) == left >= 0 /\ (stamp # 0 => left = 0)

Left(s, l) == Residual(Visible(s), l)
CommittedInv == \A l \in Line : Sound(Residual(edges, l), flag[l])
ViewInv(s) == \A l \in Line : Sound(Left(s, l), Stamp(s, l))

MoneyInv ==
    /\ LedgerInv /\ CommittedInv
    /\ \A s \in Session : DraftInv(s) /\ ViewInv(s)

Kept(s) == {e \in edges : \A f \in gone[s] : ~SameRow(e, f)}

LEMMA ViewRows ==
    ASSUME GraphInv, MoneyInv, NEW s \in Session
    PROVE  /\ Rows(edges) /\ Rows(Visible(s)) /\ Rows(Kept(s)) /\ Rows(made[s])
           /\ Visible(s) = Kept(s) \cup made[s] /\ Kept(s) \subseteq edges
           /\ Visible(s) \subseteq Edge
           /\ Visible(s) \ made[s] = Kept(s)
<1>1. \A e \in Edge : e.amount \in Nat
  BY DEF Edge
<1>2. edges \subseteq Edge /\ made[s] \subseteq Edge /\ IsFiniteSet(edges) /\ IsFiniteSet(made[s])
  BY DEF MoneyInv, LedgerInv, DraftInv, GraphInv, SessionInv, MadeInv
<1>3. Kept(s) \in SUBSET edges
  BY DEF Kept
<1>4. IsFiniteSet(Kept(s))
  BY <1>2, <1>3, FS_Subset
<1>5. Visible(s) = Kept(s) \cup made[s]
  BY DEF Visible, Kept
<1>6. IsFiniteSet(Kept(s) \cup made[s])
  BY <1>2, <1>4, FS_Union
<1>7. \A e \in Kept(s) : e \notin made[s]
  BY <1>3 DEF MoneyInv, DraftInv, GraphInv, RowInv
<1> QED
  BY <1>1, <1>2, <1>3, <1>4, <1>5, <1>6, <1>7 DEF Rows

\* Nothing of what it has done is left out of what it sees.
LEMMA OwnView ==
    ASSUME NEW s \in Session, made[s] = {}, gone[s] = {}
    PROVE  Visible(s) = edges /\ \A l : Left(s, l) = Residual(edges, l) /\ Stamp(s, l) = flag[l]
<1>1. Visible(s) = edges
  BY DEF Visible
<1>2. \A l : l \notin Ends(gone[s])
  BY DEF Ends
<1> QED
  BY <1>1, <1>2 DEF Left, Stamp

LEMMA SameView ==
    ASSUME NEW s \in Session, edges' = edges, flag' = flag,
           made'[s] = made[s], gone'[s] = gone[s]
    PROVE  /\ Visible(s)' = Visible(s)
           /\ \A l : Left(s, l)' = Left(s, l) /\ Stamp(s, l)' = Stamp(s, l)
           /\ ViewInv(s) => ViewInv(s)'
<1>1. Visible(s)' = Visible(s)
  BY DEF Visible
<1>2. \A l : Left(s, l)' = Left(s, l) /\ Stamp(s, l)' = Stamp(s, l)
  BY <1>1 DEF Left, Stamp, Residual
<1> QED
  BY <1>1, <1>2 DEF ViewInv

LEMMA MoneyFrame ==
    ASSUME MoneyInv, NEW s \in Session, Apart(s), UNCHANGED graphVars,
           DraftInv(s)', ViewInv(s)'
    PROVE  MoneyInv'
<1>1. edges' = edges /\ flag' = flag /\ groups' = groups /\ lastGroup' = lastGroup
  BY DEF graphVars
<1>2. LedgerInv'
  BY <1>1 DEF MoneyInv, LedgerInv, SameRow
<1>3. CommittedInv'
  BY <1>1 DEF MoneyInv, CommittedInv, Residual
<1>4. ASSUME NEW t \in Session, t # s PROVE DraftInv(t)' /\ ViewInv(t)'
  <2>1. DraftInv(t) /\ ViewInv(t)
    BY DEF MoneyInv
  <2>2. /\ pc'[t] = pc[t] /\ verb'[t] = verb[t] /\ want'[t] = want[t]
        /\ closure'[t] = closure[t] /\ made'[t] = made[t] /\ gone'[t] = gone[t]
        /\ comp'[t] = comp[t] /\ todo'[t] = todo[t]
    BY <1>4 DEF Apart
  <2>3. ViewInv(t)'
    BY <1>1, <2>1, <2>2, SameView
  <2>4. DraftInv(t)'
    BY <2>1, <2>2 DEF DraftInv, SameEnds
  <2> QED
    BY <2>3, <2>4
<1> QED
  BY <1>2, <1>3, <1>4 DEF MoneyInv

\* A step of one session leaves what the others keep alone.
LEMMA OthersStay ==
    ASSUME GraphInv, NEW s \in Session, Start(s) \/ Work(s) \/ Locking(s) \/ Abort(s)
    PROVE  Apart(s)
<1>1. CASE EndTx(s)
  BY <1>1, EndKeeps
<1>2. ASSUME NEW v, NEW lines, NEW read, Begin(s, v, lines, read) PROVE Apart(s)
  BY <1>2 DEF Begin, GraphInv, ShapeInv, Apart
<1>3. CASE Start(s)
  BY <1>2, <1>3 DEF Start, StartLink, StartUnlinkPair, StartUnlink
<1>4. CASE Work(s)
  <2>1. CASE Link(s)
    BY <1>1, <2>1 DEF Link, NothingToDo, GraphInv, ShapeInv, Apart
  <2>2. CASE Unlink(s)
    BY <1>1, <2>2 DEF Unlink, NothingToDo, GraphInv, ShapeInv, Apart
  <2>3. CASE LookForReversals(s)
    BY <1>1, <2>3 DEF LookForReversals, GraphInv, ShapeInv, Apart
  <2>4. CASE CommitLink(s) \/ CommitUnlink(s)
    BY <1>1, <2>4, CommitWrites DEF Write
  <2> QED
    BY <1>4, <2>1, <2>2, <2>3, <2>4 DEF Work
<1>5. CASE Locking(s)
  <2>1. ASSUME NEW l \in Line, LockLine(s, l) PROVE Apart(s)
    <3>1. \A t \in Session \ {s}, k \in Line : holder[k] = t <=> holder'[k] = t
      BY <2>1, GrantKeepsOthers DEF LockLine
    <3> QED
      BY <2>1, <3>1 DEF LockLine, GraphInv, ShapeInv, Apart
  <2>2. ASSUME NEW l \in Line, PairReversal(s, l) PROVE Apart(s)
    <3>1. ASSUME NEW r, r # Nil, r = Reversal[l], holder[r] \in {Nil, s},
                 holder' = [holder EXCEPT ![r] = s]
          PROVE  \A t \in Session \ {s}, k \in Line : holder[k] = t <=> holder'[k] = t
      <4>1. r \in Line
        BY <3>1, LineAssumption
      <4> QED
        BY <3>1, <4>1, GrantKeepsOthers
    <3>2. \A t \in Session \ {s}, k \in Line : holder[k] = t <=> holder'[k] = t
      <4>1. \/ UNCHANGED holder
            \/ /\ Reversal[l] # Nil /\ holder[Reversal[l]] \in {Nil, s}
               /\ holder' = [holder EXCEPT ![Reversal[l]] = s]
        BY <2>2 DEF PairReversal
      <4> QED
        BY <3>1, <4>1
    <3>3. \A t \in Session \ {s} : made'[t] = made[t] /\ todo'[t] = todo[t]
      BY <2>2 DEF PairReversal, GraphInv, ShapeInv
    <3>4. UNCHANGED <<pc, verb, want, closure, gone, comp>>
      BY <2>2 DEF PairReversal
    <3> QED
      BY <3>2, <3>3, <3>4 DEF Apart
  <2> QED
    BY <1>5, <2>1, <2>2 DEF Locking
<1>6. CASE Abort(s)
  BY <1>1, <1>6 DEF Abort
<1> QED
  BY <1>3, <1>4, <1>5, <1>6

-----------------------------------------------------------------------------
(* The steps up to the commit.                                             *)

LEMMA MoneyEnds ==
    ASSUME GraphInv, MoneyInv, NEW s \in Session, EndTx(s), UNCHANGED graphVars
    PROVE  MoneyInv'
<1>1. /\ Apart(s) /\ closure'[s] = {} /\ made'[s] = {} /\ gone'[s] = {} /\ todo'[s] = {}
      /\ pc'[s] = "idle"
  BY EndKeeps
<1>2. comp'[s] = {} /\ want'[s] = {}
  BY DEF EndTx, GraphInv, ShapeInv
<1>3. DraftInv(s)'
  BY <1>1, <1>2 DEF DraftInv
<1>4. ViewInv(s)'
  <2>1. edges' = edges /\ flag' = flag
    BY DEF graphVars
  <2>2. Visible(s)' = edges /\ \A l : Stamp(s, l)' = flag[l]
    BY <1>1, <2>1 DEF Visible, Stamp, Ends
  <2> QED
    BY <2>2 DEF ViewInv, Left, Residual, MoneyInv, CommittedInv
<1> QED
  BY <1>1, <1>3, <1>4, MoneyFrame

LEMMA MoneyBegins ==
    ASSUME GraphInv, MoneyInv, NEW s \in Session, NEW v, NEW lines \in SUBSET Line,
           NEW read \in SUBSET Edge, Begin(s, v, lines, read)
    PROVE  MoneyInv'
<1>1. Apart(s)
  BY DEF Begin, GraphInv, ShapeInv, Apart
<1>2. /\ pc'[s] = "pair" /\ want'[s] = lines /\ closure'[s] = read
      /\ made' = made /\ gone' = gone /\ comp' = comp /\ todo' = todo /\ UNCHANGED graphVars
      /\ edges' = edges /\ flag' = flag
  BY DEF Begin, GraphInv, ShapeInv, graphVars
<1>3. DraftInv(s)'
  BY <1>2 DEF DraftInv, SameEnds, MoneyInv
<1>4. ViewInv(s)'
  BY <1>2, SameView DEF MoneyInv
<1> QED
  BY <1>1, <1>2, <1>3, <1>4, MoneyFrame

LEMMA MoneyStarts ==
    ASSUME GraphInv, MoneyInv, NEW s \in Session, Start(s)
    PROVE  MoneyInv'
<1>1. ASSUME NEW d \in Line, NEW c \in Line, NEW n \in Amount, StartLink(s, d, c, n)
      PROVE  MoneyInv'
  BY <1>1, MoneyBegins DEF StartLink
<1>2. ASSUME NEW p \in Pairable, StartUnlinkPair(s, p[1], p[2]) PROVE MoneyInv'
  <2>1. {p[1], p[2]} \in SUBSET Line
    BY LineAssumption
  <2> QED
    BY <1>2, <2>1, MoneyBegins DEF StartUnlinkPair
<1>3. ASSUME NEW e \in edges, StartUnlink(s, e) PROVE MoneyInv'
  <2>1. {e} \in SUBSET Edge /\ e.debit \in Line /\ e.credit \in Line
    BY DEF MoneyInv, LedgerInv, Edge
  <2>2. Ends({e}) \in SUBSET Line
    BY <2>1, EndsOfOne
  <2> QED
    BY <1>3, <2>1, <2>2, MoneyBegins DEF StartUnlink
<1> QED
  BY <1>1, <1>2, <1>3 DEF Start

LEMMA MoneyLocks ==
    ASSUME GraphInv, MoneyInv, NEW s \in Session, NEW l \in Line, LockLine(s, l)
    PROVE  MoneyInv'
<1>1. Apart(s)
  BY OthersStay DEF Locking
<1>2. /\ pc' = pc /\ verb' = verb /\ closure' = closure /\ UNCHANGED graphVars
      /\ want'[s] = want[s] \ {l}
      /\ made' = made /\ gone' = gone /\ comp' = comp /\ todo' = todo
      /\ edges' = edges /\ flag' = flag
  BY DEF LockLine, GraphInv, ShapeInv, graphVars
<1>3. DraftInv(s)'
  BY <1>2 DEF DraftInv, SameEnds, MoneyInv
<1>4. ViewInv(s)'
  BY <1>2, SameView DEF MoneyInv
<1> QED
  BY <1>1, <1>2, <1>3, <1>4, MoneyFrame

LEMMA MoneyLooks ==
    ASSUME GraphInv, MoneyInv, NEW s \in Session, LookForReversals(s)
    PROVE  MoneyInv'
<1>1. CASE EndTx(s) /\ UNCHANGED graphVars
  BY <1>1, MoneyEnds
<1>2. CASE /\ pc' = [pc EXCEPT ![s] = "reversal"]
           /\ UNCHANGED <<graphVars, holder, verb, want, closure, made, gone, comp, todo>>
  <2>1. Apart(s)
    BY OthersStay DEF Work
  <2>2. edges' = edges /\ flag' = flag /\ made[s] = {}
    BY <1>2 DEF LookForReversals, MoneyInv, DraftInv, graphVars
  <2>3. pc'[s] = "reversal"
    BY <1>2 DEF GraphInv, ShapeInv
  <2>4. DraftInv(s)'
    BY <1>2, <2>2, <2>3 DEF DraftInv, MoneyInv
  <2>5. ViewInv(s)'
    BY <1>2, <2>2, SameView DEF MoneyInv
  <2> QED
    BY <1>2, <2>1, <2>4, <2>5, MoneyFrame
<1> QED
  BY <1>1, <1>2 DEF LookForReversals


LEMMA LeastOfThree ==
    ASSUME NEW a \in Int, NEW b \in Int, NEW c \in Int
    PROVE  LET m == Min({a, b, c}) IN m \in {a, b, c} /\ m <= a /\ m <= b /\ m <= c
<1>1. \E m \in {a, b, c} : \A x \in {a, b, c} : m <= x
  OBVIOUS
<1> QED
  BY <1>1 DEF Min

LEMMA LeastOfTwo ==
    ASSUME NEW a \in Int, NEW b \in Int
    PROVE  LET m == Min({a, b}) IN m \in {a, b} /\ m <= a /\ m <= b
<1>1. \E m \in {a, b} : \A x \in {a, b} : m <= x
  OBVIOUS
<1> QED
  BY <1>1 DEF Min

LEMMA GreatestOfTwo ==
    ASSUME NEW a \in Nat, NEW b \in Nat
    PROVE  LET m == Max({a, b}) IN m \in Nat /\ m \in {a, b} /\ m >= a /\ m >= b
<1>1. \E m \in {a, b} : \A x \in {a, b} : m >= x
  OBVIOUS
<1> QED
  BY <1>1 DEF Max

\* A row inserted between lines that have room for it.
LEMMA OneMoreSound ==
    ASSUME NEW E, Rows(E), NEW e, e \notin E, e.amount \in Nat, NEW l \in Line, NEW stamp,
           Sound(Residual(E, l), stamp),
           l \in {e.debit, e.credit} => e.amount <= Residual(E, l) /\ stamp = 0
    PROVE  Sound(Residual(E \cup {e}, l), stamp)
<1>1. Residual(E, l) \in Int
  BY ResidualType
<1>2. Residual(E \cup {e}, l) = Residual(E, l) - (IF l \in {e.debit, e.credit} THEN e.amount ELSE 0)
  BY ResidualOfOneMore
<1> QED
  BY <1>1, <1>2 DEF Sound

LEMMA MoneyLinks ==
    ASSUME GraphInv, MoneyInv, NEW s \in Session, Link(s)
    PROVE  MoneyInv'
<1> DEFINE d == verb[s].debit
           c == verb[s].credit
           e == [id |-> 0, debit |-> d, credit |-> c, amount |-> Clamp(s, d, c), group |-> 0]
           lines == Component(edges \cup {e}, {d, c})
<1>1. d \in Line /\ c \in Line
  BY DEF Link, GraphInv, SessionInv, HoldInv, EndsIn
<1>2. CASE NothingToDo(s)
  BY <1>2, MoneyEnds DEF NothingToDo
<1>3. CASE /\ e.amount > 0
           /\ made' = [made EXCEPT ![s] = {e}]
           /\ comp' = [comp EXCEPT ![s] = lines]
           /\ want' = [want EXCEPT ![s] = lines]
           /\ pc' = [pc EXCEPT ![s] = "component"]
           /\ UNCHANGED <<graphVars, holder, verb, closure, gone, todo>>
  <2>1. Apart(s)
    BY OthersStay DEF Work
  <2>2. made[s] = {} /\ gone[s] = {}
    BY DEF Link, GraphInv, SessionInv, HoldInv
  <2>3. Rows(edges) /\ edges \subseteq Edge
    BY ViewRows DEF MoneyInv, LedgerInv
  <2>4. Residual(edges, d) \in Int /\ Residual(edges, c) \in Int
    BY <1>1, <2>3, ResidualType
  <2>5. /\ Clamp(s, d, c) \in Int /\ Clamp(s, d, c) <= Residual(edges, d)
        /\ Clamp(s, d, c) <= Residual(edges, c)
    <3>1. verb[s].amount \in Int
      BY DEF GraphInv, ShapeInv, Verb
    <3> HIDE DEF d, c
    <3> QED
      BY <2>4, <3>1, LeastOfThree DEF Clamp
  <2>6. /\ e \in Edge /\ e.id = 0 /\ e.group = 0 /\ e.amount = Clamp(s, d, c)
        /\ e.debit = d /\ e.credit = c
    BY <1>1, <1>3, <2>5 DEF Edge
  <2>7. e \notin edges
    BY <2>6 DEF GraphInv, RowInv
  <2>8. lines \subseteq Line
    <3>1. \A x \in edges \cup {e} : x.debit \in Line /\ x.credit \in Line
      BY <2>3, <2>6 DEF Edge
    <3>2. Ends(edges \cup {e}) \subseteq Line
      BY <3>1, InEnds
    <3>3. {d, c} \in SUBSET Line
      BY <1>1
    <3> HIDE DEF d, c, e
    <3> QED
      BY <3>2, <3>3, ComponentIsLeast
  <2> HIDE DEF e, lines
  <2>9. /\ made'[s] = {e} /\ comp'[s] = lines /\ want'[s] = lines /\ pc'[s] = "component"
        /\ closure' = closure /\ gone' = gone /\ todo' = todo /\ verb' = verb
        /\ edges' = edges /\ flag' = flag
    BY <1>3 DEF graphVars, GraphInv, ShapeInv
  <2>10. verb[s].kind = "link"
    BY DEF Link
  <2>11. DraftInv(s)'
    BY <2>6, <2>8, <2>9, <2>10 DEF DraftInv, SameEnds, MoneyInv
  <2>12. ViewInv(s)'
    <3>1. Visible(s)' = edges \cup {e} /\ \A l : Stamp(s, l)' = flag[l]
      BY <2>2, <2>9 DEF Visible, Stamp, Ends
    <3>2. \A l : Left(s, l)' = Residual(edges \cup {e}, l)
      BY <3>1 DEF Left, Residual
    <3>3. ASSUME NEW l \in Line PROVE Sound(Residual(edges \cup {e}, l), flag[l])
      <4>1. Sound(Residual(edges, l), flag[l])
        BY DEF MoneyInv, CommittedInv
      <4>2. l \in {e.debit, e.credit} => e.amount <= Residual(edges, l) /\ flag[l] = 0
        BY <1>3, <2>4, <2>5, <2>6, <4>1 DEF Sound
      <4>3. e.amount \in Nat
        BY <2>6 DEF Edge
      <4> QED
        BY <2>3, <2>7, <4>1, <4>2, <4>3, OneMoreSound
    <3> QED
      BY <3>1, <3>2, <3>3 DEF ViewInv
  <2> QED
    BY <1>3, <2>1, <2>11, <2>12, MoneyFrame
<1> QED
  BY <1>2, <1>3 DEF Link

LEMMA MoneyUnlinks ==
    ASSUME GraphInv, MoneyInv, NEW s \in Session, Unlink(s)
    PROVE  MoneyInv'
<1> DEFINE E == Closure(s)
           left == {e \in edges : \A f \in E : ~SameRow(e, f)}
           lines == Component(left, Ends(E))
<1>1. CASE NothingToDo(s)
  BY <1>1, MoneyEnds DEF NothingToDo
<1>2. CASE /\ closure' = [closure EXCEPT ![s] = E]
           /\ gone' = [gone EXCEPT ![s] = E]
           /\ comp' = [comp EXCEPT ![s] = lines]
           /\ want' = [want EXCEPT ![s] = lines]
           /\ todo' = [todo EXCEPT ![s] = Ends(E)]
           /\ pc' = [pc EXCEPT ![s] = "component"]
           /\ UNCHANGED <<graphVars, holder, verb, made>>
  <2>1. Apart(s)
    BY OthersStay DEF Work
  <2>2. made[s] = {} /\ gone[s] = {}
    BY DEF Unlink, GraphInv, SessionInv, HoldInv
  <2>3. Rows(edges) /\ edges \subseteq Edge /\ left \subseteq edges
    BY ViewRows DEF MoneyInv, LedgerInv
  <2>4. E \subseteq Edge
    BY <2>3 DEF Closure, MoneyInv, DraftInv
  <2>5. \A f \in E : \A e \in edges : SameRow(e, f) => SameEnds(e, f)
    BY DEF Closure, GraphInv, RowInv, SessionInv, KnownInv
  <2>6. Ends(E) \in SUBSET Line /\ Ends(left) \subseteq Line
    <3>1. \A x \in E \cup left : x.debit \in Line /\ x.credit \in Line
      BY <2>3, <2>4 DEF Edge
    <3> HIDE DEF E, left
    <3> QED
      BY <3>1, InEnds
  <2> HIDE DEF E
  <2>7. lines \subseteq Line
    <3> HIDE DEF left
    <3> QED
      BY <2>6, ComponentIsLeast
  <2>8. /\ closure'[s] = E /\ gone'[s] = E /\ comp'[s] = lines /\ want'[s] = lines
        /\ todo'[s] = Ends(E) /\ pc'[s] = "component" /\ made' = made
        /\ edges' = edges /\ flag' = flag
    <3> HIDE DEF left, lines
    <3> QED
      BY <1>2 DEF graphVars, GraphInv, ShapeInv
  <2>9. DraftInv(s)'
    <3> HIDE DEF left, lines
    <3> QED
      BY <2>2, <2>4, <2>6, <2>7, <2>8 DEF DraftInv
  <2>10. ViewInv(s)'
    <3>1. Visible(s)' = left /\ \A l : Stamp(s, l)' = IF l \in Ends(E) THEN 0 ELSE flag[l]
      BY <2>2, <2>8 DEF Visible, Stamp
    <3>2. \A l : Left(s, l)' = Residual(left, l)
      BY <3>1 DEF Left, Residual
    <3>3. ASSUME NEW l \in Line
          PROVE  Sound(Residual(left, l), IF l \in Ends(E) THEN 0 ELSE flag[l])
      <4>1. Sound(Residual(edges, l), flag[l])
        BY DEF MoneyInv, CommittedInv
      <4>2. Residual(edges, l) <= Residual(left, l)
        BY <2>3, ResidualOfLess
      <4>3. Residual(edges, l) \in Int /\ Residual(left, l) \in Int
        <5>1. Rows(left)
          <6>1. left \in SUBSET edges
            BY <2>3
          <6> QED
            BY <2>3, <6>1, FS_Subset DEF Rows
        <5> QED
          BY <2>3, <5>1, ResidualType
      <4>4. l \notin Ends(E) => Residual(left, l) = Residual(edges, l)
        <5> SUFFICES ASSUME l \notin Ends(E) PROVE On(left, l) = On(edges, l)
          BY ResidualOfSame
        <5>1. \A f \in E : l \notin {f.debit, f.credit}
          BY InEnds
        <5> QED
          BY <2>5, <5>1 DEF On, SameEnds
      <4> QED
        BY <4>1, <4>2, <4>3, <4>4 DEF Sound
    <3> HIDE DEF left
    <3> QED
      BY <3>1, <3>2, <3>3 DEF ViewInv
  <2> QED
    BY <1>2, <2>1, <2>9, <2>10, MoneyFrame
<1> QED
  BY <1>1, <1>2 DEF Unlink

LEMMA MoneyPairs ==
    ASSUME GraphInv, MoneyInv, NEW s \in Session, NEW l \in Line, PairReversal(s, l)
    PROVE  MoneyInv'
<1> DEFINE r == Reversal[l]
           d == IF l \in Debit THEN l ELSE r
           c == IF l \in Debit THEN r ELSE l
           e == [id |-> 0, debit |-> d, credit |-> c,
                 amount |-> Min({Face[d], Face[c]}), group |-> 0]
<1>1. /\ UNCHANGED graphVars /\ edges' = edges /\ flag' = flag /\ pc' = pc /\ verb' = verb
      /\ want' = want /\ closure' = closure /\ gone' = gone /\ comp' = comp
      /\ todo'[s] = todo[s] \ {l} /\ pc[s] = "reversal"
  BY DEF PairReversal, graphVars, GraphInv, ShapeInv
<1>2. Apart(s)
  BY OthersStay DEF Locking
<1>3. CASE made' = made
  <2>1. DraftInv(s)'
    BY <1>1, <1>3 DEF DraftInv, SameEnds, MoneyInv
  <2>2. ViewInv(s)'
    BY <1>1, <1>3, SameView DEF MoneyInv
  <2> QED
    BY <1>1, <1>2, <2>1, <2>2, MoneyFrame
<1>4. CASE /\ r # Nil /\ Unapplied(s, l) /\ Unapplied(s, r)
           /\ made' = [made EXCEPT ![s] = @ \cup {e}]
  <2>1. r \in Line
    BY <1>4, LineAssumption
  <2>2. d \in Line /\ c \in Line /\ {d, c} = {l, r}
    BY <2>1
  <2>3. Face[d] \in Nat /\ Face[c] \in Nat
    BY <2>2, LineAssumption
  <2>4. LET m == Min({Face[d], Face[c]}) IN m \in Nat /\ m <= Face[d] /\ m <= Face[c]
    <3>1. \A a, b \in Nat : LET m == Min({a, b}) IN m \in Nat /\ m <= a /\ m <= b
      <4> SUFFICES ASSUME NEW a \in Nat, NEW b \in Nat
                   PROVE  LET m == Min({a, b}) IN m \in Nat /\ m <= a /\ m <= b
        OBVIOUS
      <4>1. LET m == Min({a, b}) IN m \in {a, b} /\ m <= a /\ m <= b
        BY LeastOfTwo
      <4> QED
        BY <4>1
    <3> HIDE DEF d, c
    <3> QED
      BY <2>3, <3>1
  <2>5. /\ e \in Edge /\ e.id = 0 /\ e.group = 0 /\ e.amount = Min({Face[d], Face[c]})
        /\ e.debit = d /\ e.credit = c
    BY <2>2, <2>4 DEF Edge
  <2>6. \A f \in made[s] : SameEnds(e, f) => e = f
    <3> SUFFICES ASSUME NEW f \in made[s], SameEnds(e, f) PROVE e = f
      OBVIOUS
    <3>1. f \in Edge /\ f.id = 0 /\ f.group = 0 /\ f.amount = Min({Face[f.debit], Face[f.credit]})
      BY <1>1 DEF MoneyInv, DraftInv
    <3>2. f.debit = d /\ f.credit = c
      BY <2>5 DEF SameEnds
    <3> HIDE DEF d, c
    <3> QED
      BY <3>1, <3>2 DEF Edge
  <2> HIDE DEF e
  <2>7. made'[s] = made[s] \cup {e}
    BY <1>4 DEF GraphInv, ShapeInv
  <2>8. DraftInv(s)'
    <3>1. DraftInv(s)
      BY DEF MoneyInv
    <3>2. \A f \in made[s] : SameEnds(f, e) => f = e
      BY <2>6 DEF SameEnds
    <3> HIDE DEF d, c
    <3> QED
      BY <1>1, <2>5, <2>6, <2>7, <3>1, <3>2 DEF DraftInv
  <2>9. ViewInv(s)'
    <3>1. CASE e \in made[s]
      <4>1. made'[s] = made[s]
        BY <2>7, <3>1
      <4> QED
        BY <1>1, <4>1, SameView DEF MoneyInv
    <3>2. CASE e \notin made[s]
      <4>1. Visible(s)' = Visible(s) \cup {e} /\ \A k : Stamp(s, k)' = Stamp(s, k)
        BY <1>1, <2>7 DEF Visible, Stamp
      <4>2. \A k : Left(s, k)' = Residual(Visible(s) \cup {e}, k)
        BY <4>1 DEF Left, Residual
      <4>3. Rows(Visible(s)) /\ e \notin Visible(s) /\ e.amount \in Nat
        <5>1. e \notin edges
          BY <2>5 DEF GraphInv, RowInv
        <5>2. e.amount \in Nat
          BY <2>5 DEF Edge
        <5> QED
          BY <3>2, <5>1, <5>2, ViewRows
      <4>4. ASSUME NEW k \in Line PROVE Sound(Residual(Visible(s) \cup {e}, k), Stamp(s, k))
        <5>1. Sound(Left(s, k), Stamp(s, k))
          BY DEF MoneyInv, ViewInv
        <5>2. k \in {e.debit, e.credit} => Residual(Visible(s), k) = Face[k] /\ e.amount <= Face[k]
          BY <1>4, <2>2, <2>4, <2>5 DEF Unapplied
        <5>3. Face[k] \in Nat /\ Face[k] > 0
          BY LineAssumption
        <5>4. k \in {e.debit, e.credit} => e.amount <= Residual(Visible(s), k) /\ Stamp(s, k) = 0
          BY <5>1, <5>2, <5>3 DEF Sound, Left
        <5> QED
          BY <4>3, <5>1, <5>4, OneMoreSound DEF Left
      <4> QED
        BY <4>1, <4>2, <4>4 DEF ViewInv
    <3> QED
      BY <3>1, <3>2
  <2> QED
    BY <1>1, <1>2, <2>8, <2>9, MoneyFrame
<1> QED
  BY <1>3, <1>4 DEF PairReversal

-----------------------------------------------------------------------------
(* The commit.                                                             *)

NumberedRow(s, e) == IF e \in made[s] THEN [e EXCEPT !.id = NewId(s, e)] ELSE e

LEMMA NewIds ==
    ASSUME GraphInv, MoneyInv, NEW s \in Session, NEW G, Write(s, G)
    PROVE  /\ \A e \in made[s] : NewId(s, e) \in (lastEdge + 1)..lastEdge'
           /\ \A e, f \in made[s] : NewId(s, e) = NewId(s, f) => e = f
           /\ lastEdge \in Nat /\ lastEdge' \in Nat /\ lastEdge <= lastEdge'
<1>1. IsFiniteSet(made[s]) /\ (\A e \in made[s] : EdgeLike(e)) /\ lastEdge \in Nat
  BY DEF GraphInv, SessionInv, MadeInv, RowInv
<1>2. Cardinality(made[s]) \in Nat
  BY <1>1, FS_CardinalityType
<1>3. \A e \in made[s] : Cardinality(UpTo(made[s], e)) \in 1..Cardinality(made[s])
  BY <1>1, RankType
<1>4. lastEdge' = lastEdge + Cardinality(made[s])
  BY DEF Write
<1>5. ASSUME NEW e \in made[s], NEW f \in made[s], NewId(s, e) = NewId(s, f) PROVE e = f
  <2>1. Cardinality(UpTo(made[s], e)) = Cardinality(UpTo(made[s], f))
    BY <1>1, <1>2, <1>3, <1>5 DEF NewId
  <2>2. SameEnds(e, f)
    BY <1>1, <2>1, RanksDiffer
  <2> QED
    BY <2>2 DEF MoneyInv, DraftInv
<1> QED
  BY <1>1, <1>2, <1>3, <1>4, <1>5 DEF NewId

\* The rows after a commit are the rows its session saw, each the same but for
\* its group, and the ones it inserted with ids of their own.
LEMMA CommitMap ==
    ASSUME GraphInv, MoneyInv, NEW s \in Session, NEW G \in [Line -> Nat], Write(s, G)
    PROVE  \E H :
             /\ edges' = {H[e] : e \in Visible(s)}
             /\ \A e \in Visible(s) :
                   H[e] \in Edge /\ H[e].amount = e.amount /\ SameEnds(H[e], e)
             /\ \A e \in Kept(s) : H[e].id = e.id
             /\ \A e \in made[s] : H[e].id \in (lastEdge + 1)..lastEdge'
             /\ \A e, f \in Visible(s) : H[e].id = H[f].id => e = f
<1> DEFINE F(e) == [e EXCEPT !.group = Coalesce(@, Max({G[e.debit], G[e.credit]}))]
           H == [e \in Visible(s) |-> F(NumberedRow(s, e))]
<1>1. /\ Visible(s) = Kept(s) \cup made[s] /\ Visible(s) \ made[s] = Kept(s)
      /\ Visible(s) \subseteq Edge /\ Kept(s) \subseteq edges
  BY ViewRows
<1>2. edges' = {F(e) : e \in Kept(s) \cup Numbered(made[s])}
  BY <1>1 DEF Write, AttachPartials
<1>3. Kept(s) \cup Numbered(made[s]) = {NumberedRow(s, e) : e \in Visible(s)}
  <2>1. \A e \in Kept(s) : e \notin made[s]
    BY <1>1
  <2>2. Numbered(made[s]) = {[e EXCEPT !.id = NewId(s, e)] : e \in made[s]}
    BY DEF Numbered, NewId
  <2> HIDE DEF NewId
  <2> QED
    BY <1>1, <2>1, <2>2 DEF NumberedRow
<1>4. /\ \A e \in made[s] : NewId(s, e) \in (lastEdge + 1)..lastEdge'
      /\ \A e, f \in made[s] : NewId(s, e) = NewId(s, f) => e = f
      /\ lastEdge \in Nat /\ lastEdge' \in Nat
  BY NewIds
<1> HIDE DEF NewId
<1>5. \A e \in Edge : /\ F(e) \in Edge /\ F(e).id = e.id
                      /\ F(e).amount = e.amount /\ SameEnds(F(e), e)
  <2> SUFFICES ASSUME NEW e \in Edge
               PROVE  /\ F(e) \in Edge /\ F(e).id = e.id
                      /\ F(e).amount = e.amount /\ SameEnds(F(e), e)
    OBVIOUS
  <2>1. G[e.debit] \in Nat /\ G[e.credit] \in Nat /\ e.group \in Nat
    BY DEF Edge
  <2>2. Max({G[e.debit], G[e.credit]}) \in Nat
    BY <2>1, GreatestOfTwo
  <2>3. Coalesce(e.group, Max({G[e.debit], G[e.credit]})) \in Nat
    BY <2>1, <2>2 DEF Coalesce
  <2> QED
    BY <2>3 DEF Edge, SameEnds
<1>6. \A e \in Visible(s) :
         LET x == NumberedRow(s, e)
         IN  /\ x \in Edge /\ x.amount = e.amount /\ SameEnds(x, e)
             /\ x.id = IF e \in made[s] THEN NewId(s, e) ELSE e.id
  <2> SUFFICES ASSUME NEW e \in Visible(s)
               PROVE  LET x == NumberedRow(s, e)
                      IN  /\ x \in Edge /\ x.amount = e.amount /\ SameEnds(x, e)
                          /\ x.id = IF e \in made[s] THEN NewId(s, e) ELSE e.id
    OBVIOUS
  <2>1. CASE e \in made[s]
    <3>1. NewId(s, e) \in Nat /\ e \in Edge
      BY <1>1, <1>4, <2>1
    <3> QED
      BY <2>1, <3>1 DEF Edge, SameEnds, NumberedRow
  <2>2. CASE e \notin made[s]
    BY <1>1, <2>2 DEF SameEnds, NumberedRow
  <2> QED
    BY <2>1, <2>2
<1> HIDE DEF F
<1>7. \A e \in Visible(s) : /\ H[e] \in Edge /\ H[e].amount = e.amount /\ SameEnds(H[e], e)
                            /\ H[e].id = IF e \in made[s] THEN NewId(s, e) ELSE e.id
  <2> HIDE DEF NumberedRow
  <2> QED
    BY <1>5, <1>6 DEF SameEnds
<1>8. edges' = {H[e] : e \in Visible(s)}
  <2>1. edges' = {F(NumberedRow(s, e)) : e \in Visible(s)}
    BY <1>2, <1>3
  <2> QED
    BY <2>1
<1> HIDE DEF H
<1>9. \A e \in Kept(s) : H[e].id = e.id /\ e \notin made[s] /\ e \in Visible(s)
  BY <1>1, <1>7
<1>10. \A e \in made[s] : H[e].id = NewId(s, e)
  BY <1>1, <1>7
<1>11. \A e \in edges : e.id \in 1..lastEdge
  BY DEF GraphInv, RowInv
<1>12. ASSUME NEW e \in Visible(s), NEW f \in Visible(s), H[e].id = H[f].id PROVE e = f
  <2>1. CASE e \in Kept(s) /\ f \in Kept(s)
    BY <1>1, <1>9, <1>12, <2>1 DEF MoneyInv, LedgerInv, SameRow
  <2>2. CASE e \in made[s] /\ f \in made[s]
    BY <1>4, <1>10, <1>12, <2>2
  <2>3. CASE (e \in Kept(s) /\ f \in made[s]) \/ (e \in made[s] /\ f \in Kept(s))
    BY <1>1, <1>4, <1>9, <1>10, <1>11, <1>12, <2>3
  <2> QED
    BY <1>1, <2>1, <2>2, <2>3
<1> QED
  BY <1>4, <1>7, <1>8, <1>9, <1>10, <1>12

\* What its session saw left of a line is what is left of it.
LEMMA CommitLeaves ==
    ASSUME GraphInv, MoneyInv, NEW s \in Session, NEW G \in [Line -> Nat], Write(s, G)
    PROVE  /\ IsFiniteSet(edges') /\ edges' \subseteq Edge
           /\ \A e, f \in edges' : SameRow(e, f) => e = f
           /\ \A l \in Line : Residual(edges, l)' = Left(s, l)
<1>1. PICK H :
         /\ edges' = {H[e] : e \in Visible(s)}
         /\ \A e \in Visible(s) :
               H[e] \in Edge /\ H[e].amount = e.amount /\ SameEnds(H[e], e)
         /\ \A e, f \in Visible(s) : H[e].id = H[f].id => e = f
  BY CommitMap
<1>2. Rows(Visible(s))
  BY ViewRows
<1>3. IsFiniteSet(edges')
  BY <1>1, <1>2, FiniteImage DEF Rows
<1>4. edges' \subseteq Edge /\ \A e, f \in edges' : SameRow(e, f) => e = f
  BY <1>1 DEF SameRow
<1>5. ASSUME NEW l \in Line PROVE Residual(edges', l) = Left(s, l)
  <2>1. On(edges', l) = {H[e] : e \in On(Visible(s), l)}
    BY <1>1 DEF On, SameEnds
  <2>2. /\ \A e, f \in On(Visible(s), l) : H[e] = H[f] => e = f
        /\ \A e \in On(Visible(s), l) : H[e].amount = e.amount
    BY <1>1 DEF On
  <2>3. Residual(edges', l) = Residual(Visible(s), l)
    BY <1>2, <2>1, <2>2, ResidualOfCopy
  <2> QED
    BY <2>3 DEF Left
<1>6. \A l : Residual(edges, l)' = Residual(edges', l)
  BY DEF Residual
<1> QED
  BY <1>3, <1>4, <1>5, <1>6


\* What a commit does on a line that another session holds: nothing.
LEMMA CommitElsewhere ==
    ASSUME GraphInv, MoneyInv, NEW s \in Session, CommitLink(s) \/ CommitUnlink(s),
           NEW l \in Line, holder[l] # s
    PROVE  On(Visible(s), l) = On(edges, l) /\ On(edges, l) \subseteq Kept(s)
<1>1. \A e \in made[s] \cup gone[s] : l \notin {e.debit, e.credit}
  BY DEF CommitLink, CommitUnlink, GraphInv, SessionInv, HoldInv, EndsIn, Mine
<1>2. \A e \in edges, f \in gone[s] : SameRow(e, f) => SameEnds(e, f)
  BY DEF GraphInv, SessionInv, KnownInv
<1>3. Visible(s) = Kept(s) \cup made[s] /\ Kept(s) \subseteq edges
  BY ViewRows
<1>4. On(edges, l) \subseteq Kept(s)
  BY <1>1, <1>2 DEF On, Kept, SameEnds
<1> QED
  BY <1>1, <1>3, <1>4 DEF On

\* The rows a session inserts and deletes are on lines it holds.
LEMMA OwnRowsHeld ==
    ASSUME GraphInv, NEW t \in Session, NEW l, l \notin Mine(t)
    PROVE  l \notin Ends(gone[t]) /\ \A e \in made[t] \cup gone[t] : l \notin {e.debit, e.credit}
<1>1. pc[t] \in {"idle", "pair", "component", "reversal"}
  BY DEF GraphInv, ShapeInv
<1>2. \A e \in made[t] \cup gone[t] : EndsIn(e, Mine(t))
  BY <1>1 DEF GraphInv, SessionInv, HoldInv
<1> QED
  BY <1>2, InEnds DEF EndsIn

\* Another session sees on a line of its own what it saw before the commit,
\* and on any other line what the commit has left there.
LEMMA CommitSeen ==
    ASSUME GraphInv, MoneyInv, NEW s \in Session, CommitLink(s) \/ CommitUnlink(s),
           NEW G \in [Line -> Nat], Write(s, G), NEW t \in Session, t # s, NEW l \in Line
    PROVE  /\ l \in Mine(t) => Left(t, l)' = Left(t, l) /\ Stamp(t, l)' = Stamp(t, l)
           /\ l \notin Mine(t) => Left(t, l)' = Residual(edges, l)' /\ Stamp(t, l)' = flag'[l]
<1>1. gone'[t] = gone[t] /\ made'[t] = made[t] /\ Mine(t)' = Mine(t)
  <2>1. Apart(s)
    BY OthersStay DEF Work
  <2> QED
    BY <2>1 DEF Apart, Mine
<1>2. GraphInv'
  BY WriteKeeps
<1> DEFINE Seen == {e \in edges' : \A f \in gone[t] : ~SameRow(e, f)} \cup made[t]
<1>3. /\ Visible(t)' = Seen /\ Left(t, l)' = Residual(Seen, l)
      /\ Stamp(t, l)' = IF l \in Ends(gone[t]) THEN 0 ELSE flag'[l]
      /\ Residual(edges, l)' = Residual(edges', l)
  BY <1>1 DEF Visible, Left, Residual, Stamp
<1>4. CASE l \notin Mine(t)
  <2>1. l \notin Ends(gone[t]) /\ \A e \in made[t] \cup gone[t] : l \notin {e.debit, e.credit}
    BY <1>4, OwnRowsHeld
  <2>2. \A e \in edges', f \in gone[t] : SameRow(e, f) => SameEnds(e, f)
    BY <1>1, <1>2 DEF GraphInv, SessionInv, KnownInv, SameRow, SameEnds
  <2>3. On(Seen, l) = On(edges', l)
    BY <2>1, <2>2 DEF On, SameEnds
  <2>4. Residual(Seen, l) = Residual(edges', l)
    BY <2>3, ResidualOfSame
  <2> HIDE DEF Seen
  <2> QED
    BY <1>3, <1>4, <2>1, <2>4
<1>5. CASE l \in Mine(t)
  <2>1. holder[l] # s
    BY <1>5 DEF Mine
  <2>2. flag'[l] = flag[l]
    BY <2>1, CommitSparesOthers
  <2>3. On(Visible(s), l) = On(edges, l) /\ On(edges, l) \subseteq Kept(s)
    BY <2>1, CommitElsewhere
  <2>4. PICK H :
           /\ edges' = {H[e] : e \in Visible(s)}
           /\ \A e \in Visible(s) :
                 H[e] \in Edge /\ H[e].amount = e.amount /\ SameEnds(H[e], e)
           /\ \A e \in Kept(s) : H[e].id = e.id
           /\ \A e, f \in Visible(s) : H[e].id = H[f].id => e = f
    BY CommitMap
  <2>5. Visible(t) = Kept(t) \cup made[t] /\ Kept(t) \subseteq edges /\ Rows(Visible(t))
    BY ViewRows
  <2>6. \A e \in made[t] : e.id = 0 /\ e \notin edges /\ e \notin edges'
    BY <1>2 DEF MoneyInv, DraftInv, GraphInv, RowInv
  <2> DEFINE K == [e \in Visible(t) |-> IF e \in made[t] THEN e ELSE H[e]]
  <2>7. \A e \in On(Kept(t), l) :
           e \in On(edges, l) /\ e \in Kept(s) /\ e \in Visible(s) /\ H[e].id = e.id
             /\ H[e].amount = e.amount /\ H[e] \in On(edges', l) /\ e.id # 0
             /\ e \notin made[t] /\ e \in Visible(t) /\ K[e] = H[e]
    <3> SUFFICES ASSUME NEW e \in On(Kept(t), l)
                 PROVE  e \in On(edges, l) /\ e \in Kept(s) /\ e \in Visible(s) /\ H[e].id = e.id
                        /\ H[e].amount = e.amount /\ H[e] \in On(edges', l) /\ e.id # 0
                        /\ e \notin made[t] /\ e \in Visible(t) /\ K[e] = H[e]
      OBVIOUS
    <3>1. e \in On(edges, l) /\ e \in edges /\ e \in Kept(s) /\ e \in Visible(s)
      BY <2>3, <2>5 DEF On
    <3>2. H[e].id = e.id /\ H[e].amount = e.amount /\ H[e] \in On(edges', l)
      BY <2>4, <3>1 DEF On, SameEnds
    <3>3. e.id # 0
      BY <3>1 DEF GraphInv, RowInv
    <3>4. e \notin made[t] /\ e \in Visible(t)
      BY <2>5, <2>6, <3>1 DEF On
    <3> QED
      BY <3>1, <3>2, <3>3, <3>4
  <2>8. \A e \in made[t] : e \in Visible(t) /\ K[e] = e
    BY <2>5
  <2> HIDE DEF K
  <2>9. \A e \in On(Visible(t), l) : e \in On(Kept(t), l) \/ e \in made[t]
    BY <2>5 DEF On
  <2>10. On(Seen, l) = {K[e] : e \in On(Visible(t), l)}
    <3>1. ASSUME NEW x \in On(Seen, l) PROVE \E e \in On(Visible(t), l) : x = K[e]
      <4>1. CASE x \in made[t]
        BY <2>8, <3>1, <4>1 DEF On
      <4>2. CASE x \notin made[t]
        <5>1. x \in edges' /\ (\A f \in gone[t] : ~SameRow(x, f)) /\ l \in {x.debit, x.credit}
          BY <3>1, <4>2 DEF On
        <5>2. PICK e \in Visible(s) : x = H[e]
          BY <2>4, <5>1
        <5>3. e \in On(Visible(s), l)
          BY <2>4, <5>1, <5>2 DEF On, SameEnds
        <5>4. e \in edges /\ l \in {e.debit, e.credit} /\ H[e].id = e.id
          BY <2>3, <2>4, <5>3 DEF On
        <5>5. e \in On(Kept(t), l)
          BY <5>1, <5>2, <5>4 DEF Kept, On, SameRow
        <5>6. e \in On(Visible(t), l)
          BY <2>5, <5>5 DEF On
        <5> QED
          BY <2>7, <5>2, <5>5, <5>6
      <4> QED
        BY <4>1, <4>2
    <3>2. ASSUME NEW e \in On(Visible(t), l) PROVE K[e] \in On(Seen, l)
      <4>1. CASE e \in made[t]
        BY <2>8, <3>2, <4>1 DEF On
      <4>2. CASE e \in On(Kept(t), l)
        <5>1. \A f \in gone[t] : ~SameRow(e, f)
          BY <4>2 DEF On, Kept
        <5>2. K[e] \in On(edges', l) /\ K[e].id = e.id
          BY <2>7, <4>2
        <5> QED
          BY <5>1, <5>2 DEF On, SameRow
      <4> QED
        BY <2>9, <3>2, <4>1, <4>2
    <3> HIDE DEF Seen
    <3> QED
      BY <3>1, <3>2
  <2>11. \A e, f \in On(Visible(t), l) : K[e] = K[f] => e = f
    <3> SUFFICES ASSUME NEW e \in On(Visible(t), l), NEW f \in On(Visible(t), l), K[e] = K[f]
                 PROVE  e = f
      OBVIOUS
    <3>1. CASE e \in made[t] /\ f \in made[t]
      BY <2>8, <3>1
    <3>2. CASE e \in On(Kept(t), l) /\ f \in On(Kept(t), l)
      <4>1. e \in Visible(s) /\ f \in Visible(s) /\ H[e] = H[f]
        BY <2>7, <3>2
      <4> QED
        BY <2>4, <4>1
    <3>3. CASE e \in made[t] /\ f \in On(Kept(t), l)
      BY <2>6, <2>7, <2>8, <3>3
    <3>4. CASE e \in On(Kept(t), l) /\ f \in made[t]
      BY <2>6, <2>7, <2>8, <3>4
    <3> QED
      BY <2>9, <3>1, <3>2, <3>3, <3>4
  <2>12. \A e \in On(Visible(t), l) : K[e].amount = e.amount
    BY <2>7, <2>8, <2>9
  <2> HIDE DEF Seen
  <2>13. Residual(Seen, l) = Residual(Visible(t), l)
    <3>1. Rows(Visible(t))
      BY <2>5
    <3> QED
      BY <2>10, <2>11, <2>12, <3>1, ResidualOfCopy
  <2> QED
    BY <1>3, <1>5, <2>2, <2>13 DEF Left, Stamp
<1> QED
  BY <1>4, <1>5

LEMMA GroupForType ==
    ASSUME MoneyInv, NEW s \in Session
    PROVE  GroupFor(s) \in Nat /\ (GroupFor(s) # 0 => Settled(s))
<1>1. Stamps(s) \subseteq Nat
  BY DEF Stamps, Stamp, MoneyInv, LedgerInv, DraftInv
<1>2. lastGroup \in Nat
  BY DEF MoneyInv, LedgerInv
<1> QED
  BY <1>1, <1>2 DEF GroupFor

\* A row that takes all of a line leaves nothing of it.
LEMMA FullRow ==
    ASSUME GraphInv, MoneyInv, NEW s \in Session, NEW e \in made[s], NEW l \in Line,
           l \in {e.debit, e.credit}, e.amount = Face[l]
    PROVE  Left(s, l) = 0
<1>1. Rows(Visible(s)) /\ e \in Visible(s)
  BY ViewRows
<1>2. Left(s, l) <= Face[l] - e.amount
  BY <1>1, RowTakes DEF Left
<1>3. Left(s, l) >= 0
  BY DEF MoneyInv, ViewInv, Sound
<1>4. Left(s, l) \in Int /\ Face[l] \in Nat
  BY <1>1, ResidualType DEF Left
<1> QED
  BY <1>2, <1>3, <1>4

\* Whatever a commit stamps has nothing left.
LEMMA GroupsFit ==
    ASSUME GraphInv, MoneyInv, NEW s \in Session, CommitLink(s) \/ CommitUnlink(s)
    PROVE  \E G \in [Line -> Nat] : Write(s, G) /\ \A l \in Line : G[l] # 0 => Left(s, l) = 0
<1>1. CASE Write(s, ComponentGroup(s))
  <2>1. ComponentGroup(s) \in [Line -> Nat]
    BY GroupForType DEF ComponentGroup
  <2>2. \A l \in Line : ComponentGroup(s)[l] # 0 => Left(s, l) = 0
    BY GroupForType DEF ComponentGroup, Settled, Left
  <2> QED
    BY <1>1, <2>1, <2>2
<1>2. CASE Write(s, ReversalGroup(s)) /\ pc[s] = "reversal"
  <2> DEFINE full == {e \in made[s] : Face[e.debit] = Face[e.credit]}
             upto(e) == {f \in full : f.debit <= e.debit}
             chosen(l) == CHOOSE e \in full : l \in Ends({e})
             number(e) == lastGroup + Cardinality(upto(e))
  <2>1. ReversalGroup(s) = [l \in Line |-> IF l \in Ends(full) THEN number(chosen(l)) ELSE 0]
    BY DEF ReversalGroup
  <2>2. ASSUME NEW e PROVE number(e) \in Nat
    <3>1. upto(e) \in SUBSET made[s]
      OBVIOUS
    <3>2. Cardinality(upto(e)) \in Nat
      <4> HIDE DEF upto
      <4> QED
        BY <3>1, FS_Subset, FS_CardinalityType DEF GraphInv, SessionInv, MadeInv
    <3> HIDE DEF upto
    <3> QED
      BY <3>2 DEF MoneyInv, LedgerInv
  <2> HIDE DEF number, chosen
  <2>3. ReversalGroup(s) \in [Line -> Nat]
    <3> HIDE DEF full
    <3> QED
      BY <2>1, <2>2
  <2>4. ASSUME NEW l \in Line, ReversalGroup(s)[l] # 0 PROVE Left(s, l) = 0
    <3>1. l \in Ends(full)
      <4> HIDE DEF full
      <4> QED
        BY <2>1, <2>4
    <3>2. PICK e \in full : l \in {e.debit, e.credit}
      <4> HIDE DEF full
      <4> QED
        BY <3>1, InEnds
    <3>3. e \in made[s] /\ Face[e.debit] = Face[l] /\ Face[e.credit] = Face[l]
      BY <3>2
    <3>4. e.amount = Min({Face[e.debit], Face[e.credit]})
      BY <1>2, <3>3 DEF MoneyInv, DraftInv
    <3>5. Face[l] \in Int
      BY LineAssumption
    <3>6. e.amount = Face[l]
      BY <3>3, <3>4, <3>5, LeastOfTwo
    <3> QED
      BY <3>2, <3>3, <3>6, FullRow
  <2> QED
    BY <1>2, <2>3, <2>4
<1> QED
  BY <1>1, <1>2 DEF CommitLink, CommitUnlink

LEMMA MoneyWrites ==
    ASSUME GraphInv, MoneyInv, NEW s \in Session, CommitLink(s) \/ CommitUnlink(s)
    PROVE  MoneyInv'
<1>1. PICK G \in [Line -> Nat] : Write(s, G) /\ \A l \in Line : G[l] # 0 => Left(s, l) = 0
  BY GroupsFit
<1>2. Apart(s)
  BY OthersStay DEF Work
<1>3. flag \in [Line -> Nat] /\ lastGroup \in Nat /\ groups \subseteq Nat
  BY DEF MoneyInv, LedgerInv
<1>4. \A l \in Line : Stamp(s, l) \in Nat
  BY <1>3 DEF Stamp
<1>5. \A l \in Line : flag'[l] = Coalesce(Stamp(s, l), G[l])
  BY <1>1 DEF Write
<1>6. LedgerInv'
  <2>1. flag' \in [Line -> Nat]
    BY <1>1, <1>4 DEF Write, Coalesce
  <2>2. groups' \subseteq Nat
    BY <1>1, <1>3 DEF Write
  <2>3. lastGroup' \in Nat
    <3> DEFINE T == {G[l] : l \in Line}
    <3>1. IsFiniteSet(T) /\ T \subseteq Nat
      <4>1. IsFiniteSet(T)
        <5>1. IsFiniteSet(Line)
          BY LineAssumption
        <5> QED
          BY <5>1, FiniteImage
      <4>2. T \subseteq Nat
        OBVIOUS
      <4> QED
        BY <4>1, <4>2
    <3> HIDE DEF T
    <3>2. IsFiniteSet(T \cup {lastGroup})
      BY <3>1, FS_AddElement
    <3>3. IsFiniteSet({lastGroup} \cup T) /\ {lastGroup} \cup T # {}
          /\ \A x \in {lastGroup} \cup T : x \in Nat /\ x \in Int
      <4>1. T \cup {lastGroup} = {lastGroup} \cup T
        OBVIOUS
      <4> QED
        BY <1>3, <3>1, <3>2, <4>1
    <3>4. Max({lastGroup} \cup T) \in {lastGroup} \cup T
      BY <3>3, Greatest
    <3>5. lastGroup' = Max({lastGroup} \cup T)
      BY <1>1 DEF Write, T
    <3> QED
      BY <3>3, <3>4, <3>5
  <2>4. /\ IsFiniteSet(edges') /\ edges' \subseteq Edge
        /\ \A e, f \in edges' : SameRow(e, f) => e = f
    BY <1>1, CommitLeaves
  <2> QED
    BY <2>1, <2>2, <2>3, <2>4 DEF LedgerInv, SameRow
<1>7. \A l \in Line : Residual(edges, l)' = Left(s, l)
  BY <1>1, CommitLeaves
<1>8. \A l \in Line : Sound(Residual(edges, l)', flag'[l])
  <2> SUFFICES ASSUME NEW l \in Line PROVE Sound(Left(s, l), flag'[l])
    BY <1>7
  <2>1. Sound(Left(s, l), Stamp(s, l))
    BY DEF MoneyInv, ViewInv
  <2> QED
    BY <1>1, <1>5, <2>1 DEF Sound, Coalesce
<1>9. CommittedInv'
  BY <1>8 DEF CommittedInv, Sound
<1>10. EndTx(s)
  BY <1>1 DEF Write
<1>11. DraftInv(s)' /\ ViewInv(s)'
  <2>1. /\ closure'[s] = {} /\ made'[s] = {} /\ gone'[s] = {} /\ todo'[s] = {}
        /\ pc'[s] = "idle" /\ comp'[s] = {} /\ want'[s] = {}
    BY <1>10, EndKeeps DEF EndTx, GraphInv, ShapeInv
  <2>2. DraftInv(s)'
    BY <2>1 DEF DraftInv
  <2>3. Visible(s)' = edges' /\ \A l : Stamp(s, l)' = flag'[l]
    BY <2>1 DEF Visible, Stamp, Ends
  <2>4. \A l : Left(s, l)' = Residual(edges, l)'
    BY <2>3 DEF Left, Residual
  <2> QED
    BY <1>8, <2>2, <2>3, <2>4 DEF ViewInv, Sound
<1>12. ASSUME NEW t \in Session, t # s PROVE DraftInv(t)' /\ ViewInv(t)'
  <2>1. DraftInv(t) /\ ViewInv(t)
    BY DEF MoneyInv
  <2>2. DraftInv(t)'
    <3>1. /\ pc'[t] = pc[t] /\ verb'[t] = verb[t] /\ want'[t] = want[t]
          /\ closure'[t] = closure[t] /\ made'[t] = made[t] /\ gone'[t] = gone[t]
          /\ comp'[t] = comp[t] /\ todo'[t] = todo[t]
      BY <1>2, <1>12 DEF Apart
    <3> QED
      BY <2>1, <3>1 DEF DraftInv, SameEnds
  <2>3. ASSUME NEW l \in Line PROVE Sound(Left(t, l)', Stamp(t, l)')
    <3>1. /\ l \in Mine(t) => Left(t, l)' = Left(t, l) /\ Stamp(t, l)' = Stamp(t, l)
          /\ l \notin Mine(t) => Left(t, l)' = Residual(edges, l)' /\ Stamp(t, l)' = flag'[l]
      BY <1>1, <1>12, CommitSeen
    <3>2. Sound(Left(t, l), Stamp(t, l))
      BY <2>1 DEF ViewInv
    <3>3. CASE l \in Mine(t)
      BY <3>1, <3>2, <3>3
    <3>4. CASE l \notin Mine(t)
      BY <1>8, <3>1, <3>4
    <3> QED
      BY <3>3, <3>4
  <2>4. ViewInv(t)'
    BY <2>3 DEF ViewInv, Sound
  <2> QED
    BY <2>2, <2>4
<1> QED
  BY <1>6, <1>9, <1>11, <1>12 DEF MoneyInv

-----------------------------------------------------------------------------
LEMMA InitMoney == Init => MoneyInv
<1> SUFFICES ASSUME Init PROVE MoneyInv
  OBVIOUS
<1>1. IsFiniteSet(edges) /\ edges = {}
  BY FS_EmptySet DEF Init
<1>2. LedgerInv
  BY <1>1 DEF Init, LedgerInv
<1>3. \A l \in Line : Sound(Residual(edges, l), flag[l])
  <2> SUFFICES ASSUME NEW l \in Line PROVE Residual(edges, l) = Face[l] /\ Face[l] \in Nat /\ flag[l] = 0
    BY DEF Sound
  <2>1. On(edges, l) = {}
    BY <1>1 DEF On
  <2> QED
    BY <2>1, ResidualOfNone, LineAssumption DEF Init
<1>4. ASSUME NEW s \in Session PROVE DraftInv(s) /\ ViewInv(s)
  <2>1. DraftInv(s)
    BY DEF Init, DraftInv
  <2>2. made[s] = {} /\ gone[s] = {}
    BY DEF Init
  <2> QED
    BY <1>3, <2>1, <2>2, OwnView DEF ViewInv
<1> QED
  BY <1>2, <1>3, <1>4 DEF MoneyInv, CommittedInv

LEMMA MoneyStepKeeps == GraphInv /\ MoneyInv /\ [Next]_vars => MoneyInv'
<1> SUFFICES ASSUME GraphInv, MoneyInv, [Next]_vars PROVE MoneyInv'
  OBVIOUS
<1>1. CASE UNCHANGED vars
  <2>1. edges' = edges /\ flag' = flag /\ groups' = groups /\ lastGroup' = lastGroup
        /\ pc' = pc /\ verb' = verb /\ want' = want /\ closure' = closure /\ made' = made
        /\ gone' = gone /\ comp' = comp /\ todo' = todo
    BY <1>1 DEF vars, graphVars, sessionVars
  <2>2. LedgerInv' /\ CommittedInv'
    BY <2>1 DEF MoneyInv, LedgerInv, SameRow, CommittedInv, Residual
  <2>3. \A s \in Session : DraftInv(s)'
    BY <2>1 DEF MoneyInv, DraftInv, SameEnds
  <2>4. \A s \in Session : ViewInv(s)'
    BY <2>1, SameView DEF MoneyInv
  <2> QED
    BY <2>2, <2>3, <2>4 DEF MoneyInv
<1>2. ASSUME NEW s \in Session, Start(s) PROVE MoneyInv'
  BY <1>2, MoneyStarts
<1>3. ASSUME NEW s \in Session, Work(s) PROVE MoneyInv'
  BY <1>3, MoneyLinks, MoneyUnlinks, MoneyLooks, MoneyWrites DEF Work
<1>4. ASSUME NEW s \in Session, Locking(s) PROVE MoneyInv'
  BY <1>4, MoneyLocks, MoneyPairs DEF Locking
<1>5. ASSUME NEW s \in Session, Abort(s) PROVE MoneyInv'
  BY <1>5, MoneyEnds DEF Abort
<1> QED
  BY <1>1, <1>2, <1>3, <1>4, <1>5 DEF Next, Idle

\* What the sessions keep are functions of the session.
FunctionalInv ==
    /\ want = [s \in Session |-> want[s]] /\ closure = [s \in Session |-> closure[s]]
    /\ made = [s \in Session |-> made[s]] /\ gone = [s \in Session |-> gone[s]]
    /\ comp = [s \in Session |-> comp[s]] /\ todo = [s \in Session |-> todo[s]]

LEMMA InitFunctional == Init => FunctionalInv
  BY DEF Init, FunctionalInv

LEMMA FunctionalStep == FunctionalInv /\ [Next]_vars => FunctionalInv'
<1> SUFFICES ASSUME FunctionalInv, [Next]_vars PROVE FunctionalInv'
  OBVIOUS
<1>1. CASE UNCHANGED vars
  BY <1>1 DEF vars, sessionVars, FunctionalInv
<1>2. ASSUME NEW s \in Session, EndTx(s) PROVE FunctionalInv'
  BY <1>2 DEF EndTx, FunctionalInv
<1>3. ASSUME NEW s \in Session, Start(s) PROVE FunctionalInv'
  BY <1>3 DEF Start, StartLink, StartUnlinkPair, StartUnlink, Begin, FunctionalInv
<1>4. ASSUME NEW s \in Session, Work(s) PROVE FunctionalInv'
  <2>1. CASE Link(s)
    BY <1>2, <2>1 DEF Link, NothingToDo, FunctionalInv
  <2>2. CASE Unlink(s)
    BY <1>2, <2>2 DEF Unlink, NothingToDo, FunctionalInv
  <2>3. CASE LookForReversals(s)
    BY <1>2, <2>3 DEF LookForReversals, FunctionalInv
  <2>4. CASE CommitLink(s) \/ CommitUnlink(s)
    BY <1>2, <2>4 DEF CommitLink, CommitUnlink, Write
  <2> QED
    BY <1>4, <2>1, <2>2, <2>3, <2>4 DEF Work
<1>5. ASSUME NEW s \in Session, Locking(s) PROVE FunctionalInv'
  BY <1>5 DEF Locking, LockLine, PairReversal, FunctionalInv
<1>6. ASSUME NEW s \in Session, Abort(s) PROVE FunctionalInv'
  BY <1>2, <1>6 DEF Abort
<1> QED
  BY <1>1, <1>3, <1>4, <1>5, <1>6 DEF Next, Idle

LEMMA MoneyKept == Spec => [](GraphInv /\ MoneyInv /\ FunctionalInv)
<1> QED
  BY InitGraph, StepKeeps, InitMoney, MoneyStepKeeps, InitFunctional, FunctionalStep, PTL DEF Spec

\* Every variable keeps its type: the amount of a row, the group it gets at a
\* commit and the lines the component query finds are what they are meant to be.
THEOREM GraphTyped == Spec => []TypeOK
<1>1. GraphInv /\ MoneyInv /\ FunctionalInv => TypeOK
  <2> SUFFICES ASSUME GraphInv, MoneyInv, FunctionalInv PROVE TypeOK
    OBVIOUS
  <2>1. /\ edges \subseteq Edge /\ groups \subseteq Nat /\ flag \in [Line -> Nat]
        /\ lastEdge \in Nat /\ lastGroup \in Nat
    BY DEF MoneyInv, LedgerInv, GraphInv, RowInv
  <2>2. /\ holder \in [Line -> Session \cup {Nil}]
        /\ pc \in [Session -> {"idle", "pair", "component", "reversal"}]
        /\ verb \in [Session -> Verb]
    BY DEF GraphInv, ShapeInv
  <2>3. \A s \in Session :
           /\ closure[s] \subseteq Edge /\ gone[s] \subseteq Edge /\ made[s] \subseteq Edge
           /\ want[s] \subseteq Line /\ comp[s] \subseteq Line /\ todo[s] \subseteq Line
    BY DEF MoneyInv, DraftInv
  <2>4. want \in [Session -> SUBSET Line] /\ comp \in [Session -> SUBSET Line]
    BY <2>3 DEF FunctionalInv
  <2>5. todo \in [Session -> SUBSET Line] /\ closure \in [Session -> SUBSET Edge]
    BY <2>3 DEF FunctionalInv
  <2>6. made \in [Session -> SUBSET Edge] /\ gone \in [Session -> SUBSET Edge]
    BY <2>3 DEF FunctionalInv
  <2> QED
    BY <2>1, <2>2, <2>4, <2>5, <2>6 DEF TypeOK
<1> QED
  BY <1>1, MoneyKept, PTL

\* RGG-10 for any number of sessions, lines and faces: however links and unlinks
\* race over shared lines, no line is ever applied beyond its face.
THEOREM NeverOverApplied == Spec => []NothingOverApplied
<1>1. MoneyInv => NothingOverApplied
  BY DEF MoneyInv, CommittedInv, Sound, NothingOverApplied
<1> QED
  BY <1>1, MoneyKept, PTL

\* is_reconciled is set "only at full-group completion": in every reachable state
\* a line that carries a group stamp has nothing left.
THEOREM StampsSettled == Spec => []StampedIsSettled
<1>1. MoneyInv => StampedIsSettled
  BY DEF MoneyInv, CommittedInv, Sound, StampedIsSettled
<1> QED
  BY <1>1, MoneyKept, PTL

-----------------------------------------------------------------------------
(* The component and the reversals.                                        *)

Seeds(s) == IF verb[s].kind = "link" THEN Ends(made[s]) ELSE Ends(gone[s])

VerbInv(s) ==
    /\ pc[s] = "idle" => verb[s].kind = "none"
    /\ pc[s] = "pair" /\ verb[s].kind = "link" => closure[s] = {}
    /\ pc[s] \in {"component", "reversal"} => closure[s] = gone[s]
    /\ pc[s] = "component" =>
          IF verb[s].kind = "link" THEN gone[s] = {} ELSE todo[s] = Ends(closure[s])
    /\ pc[s] = "reversal" => verb[s].kind # "link" /\ todo[s] \subseteq Ends(closure[s])
    /\ \A e \in made[s] : e.amount > 0

\* The component holds the seeds, no edge that is kept leads out of it, and no
\* part of it without a seed is cut off from the rest.  A row the verb inserts
\* ends in the component or on a line that had no row.
ComponentInv(s) ==
    pc[s] \in {"component", "reversal"} =>
        /\ Seeds(s) \subseteq comp[s]
        /\ Closed(Kept(s), comp[s])
        /\ \A X \in SUBSET comp[s] :
              X # {} /\ X \cap Seeds(s) = {} => ~Closed(Kept(s), X)
        /\ \A e \in made[s], l \in Line :
              l \in {e.debit, e.credit} => l \in comp[s] \/ On(Kept(s), l) = {}

\* A line whose turn is over is partly applied, or has a reversal that is.
FreedInv(s) ==
    pc[s] = "reversal" =>
        \A l \in Ends(closure[s]) \ todo[s] :
            \/ Reversal[l] = Nil \/ Left(s, l) < Face[l]
            \/ Reversal[l] \in Mine(s) /\ Left(s, Reversal[l]) < Face[Reversal[l]]

ScopeInv ==
    /\ \A e \in edges : e.amount > 0
    /\ \A s \in Session : VerbInv(s) /\ ComponentInv(s) /\ FreedInv(s)

LEMMA ScopeFrame ==
    ASSUME GraphInv, ScopeInv, NEW s \in Session, Apart(s), UNCHANGED graphVars,
           VerbInv(s)', ComponentInv(s)', FreedInv(s)'
    PROVE  ScopeInv'
<1>1. edges' = edges /\ flag' = flag
  BY DEF graphVars
<1>2. ASSUME NEW t \in Session, t # s PROVE VerbInv(t)' /\ ComponentInv(t)' /\ FreedInv(t)'
  <2>1. VerbInv(t) /\ ComponentInv(t) /\ FreedInv(t)
    BY DEF ScopeInv
  <2>2. /\ pc'[t] = pc[t] /\ verb'[t] = verb[t] /\ want'[t] = want[t]
        /\ closure'[t] = closure[t] /\ made'[t] = made[t] /\ gone'[t] = gone[t]
        /\ comp'[t] = comp[t] /\ todo'[t] = todo[t] /\ Mine(t)' = Mine(t)
    BY <1>2 DEF Apart, Mine
  <2>3. Kept(t)' = Kept(t) /\ \A l : Left(t, l)' = Left(t, l)
    BY <1>1, <2>2, SameView DEF Kept
  <2>4. VerbInv(t)'
    BY <2>1, <2>2 DEF VerbInv, Ends
  <2>5. ComponentInv(t)'
    BY <2>1, <2>2, <2>3 DEF ComponentInv, Seeds, Ends, Closed, On
  <2>6. FreedInv(t)'
    BY <2>1, <2>2, <2>3 DEF FreedInv, Ends
  <2> QED
    BY <2>4, <2>5, <2>6
<1> QED
  BY <1>1, <1>2 DEF ScopeInv

LEMMA ScopeEnds ==
    ASSUME GraphInv, NEW s \in Session, EndTx(s)
    PROVE  Apart(s) /\ VerbInv(s)' /\ ComponentInv(s)' /\ FreedInv(s)'
<1>1. Apart(s) /\ made'[s] = {} /\ pc'[s] = "idle"
  BY EndKeeps
<1>2. verb'[s] = NoVerb
  BY DEF EndTx, GraphInv, ShapeInv
<1> QED
  BY <1>1, <1>2 DEF VerbInv, ComponentInv, FreedInv, NoVerb

LEMMA ScopeBegins ==
    ASSUME GraphInv, ScopeInv, NEW s \in Session, NEW v \in Verb, NEW lines, NEW read,
           Begin(s, v, lines, read), v.kind = "link" => read = {}
    PROVE  ScopeInv'
<1>1. Apart(s)
  BY DEF Begin, GraphInv, ShapeInv, Apart
<1>2. /\ pc'[s] = "pair" /\ closure'[s] = read /\ verb'[s] = v /\ made' = made
      /\ UNCHANGED graphVars
  BY DEF Begin, GraphInv, ShapeInv
<1>3. VerbInv(s)' /\ ComponentInv(s)' /\ FreedInv(s)'
  BY <1>2 DEF VerbInv, ComponentInv, FreedInv, ScopeInv
<1> QED
  BY <1>1, <1>2, <1>3, ScopeFrame

LEMMA ScopeStarts ==
    ASSUME GraphInv, ScopeInv, NEW s \in Session, Start(s)
    PROVE  ScopeInv'
<1>1. ASSUME NEW d \in Line, NEW c \in Line, NEW n \in Amount, StartLink(s, d, c, n)
      PROVE  ScopeInv'
  <2> DEFINE v == [kind |-> "link", debit |-> d, credit |-> c, amount |-> n]
  <2>1. v \in Verb
    BY LineAssumption DEF Verb
  <2>2. Begin(s, v, {d, c}, {})
    BY <1>1 DEF StartLink
  <2> HIDE DEF v
  <2> QED
    BY <2>1, <2>2, ScopeBegins
<1>2. ASSUME NEW p \in Pairable, StartUnlinkPair(s, p[1], p[2]) PROVE ScopeInv'
  <2> DEFINE v == [NoVerb EXCEPT !.kind = "unlink_pair", !.debit = p[1], !.credit = p[2]]
  <2>1. p[1] \in Line /\ p[2] \in Line
    BY LineAssumption
  <2>2. v \in Verb /\ v.kind # "link"
    BY <2>1 DEF Verb, NoVerb
  <2>3. Begin(s, v, {p[1], p[2]}, {})
    BY <1>2 DEF StartUnlinkPair
  <2> HIDE DEF v
  <2> QED
    BY <2>2, <2>3, ScopeBegins
<1>3. ASSUME NEW e \in edges, StartUnlink(s, e) PROVE ScopeInv'
  <2> DEFINE v == [NoVerb EXCEPT !.kind = "unlink"]
  <2>1. v \in Verb /\ v.kind # "link"
    BY DEF Verb, NoVerb
  <2>2. Begin(s, v, Ends({e}), {e})
    BY <1>3 DEF StartUnlink
  <2> HIDE DEF v
  <2> QED
    BY <2>1, <2>2, ScopeBegins
<1> QED
  BY <1>1, <1>2, <1>3 DEF Start

LEMMA ScopeLocks ==
    ASSUME GraphInv, ScopeInv, NEW s \in Session, NEW l \in Line, LockLine(s, l)
    PROVE  ScopeInv'
<1>1. Apart(s)
  BY OthersStay DEF Locking
<1>2. /\ pc' = pc /\ verb' = verb /\ closure' = closure /\ UNCHANGED graphVars
      /\ made' = made /\ gone' = gone /\ comp' = comp /\ todo' = todo
      /\ edges' = edges /\ flag' = flag
  BY DEF LockLine, graphVars
<1>3. Mine(s) \subseteq Mine(s)'
  BY GrantKeepsOthers DEF LockLine
<1>4. Kept(s)' = Kept(s) /\ \A k : Left(s, k)' = Left(s, k)
  BY <1>2, SameView DEF Kept
<1>5. VerbInv(s)' /\ ComponentInv(s)'
  BY <1>2, <1>4 DEF ScopeInv, VerbInv, ComponentInv, Seeds, Ends, Closed, On
<1>6. FreedInv(s)'
  BY <1>2, <1>3, <1>4 DEF ScopeInv, FreedInv, Ends
<1> QED
  BY <1>1, <1>2, <1>5, <1>6, ScopeFrame

\* The component query finds no part that is cut off from its seeds.
LEMMA NoIsland ==
    ASSUME NEW E, NEW seeds \in SUBSET Line, Ends(E) \subseteq Line
    PROVE  /\ seeds \subseteq Component(E, seeds) /\ Closed(E, Component(E, seeds))
           /\ \A X \in SUBSET Component(E, seeds) :
                 X # {} /\ X \cap seeds = {} => ~Closed(E, X)
<1> DEFINE C == Component(E, seeds)
<1>1. /\ seeds \subseteq C /\ Closed(E, C)
      /\ \A X : seeds \subseteq X /\ Closed(E, X) => C \subseteq X
  BY ComponentIsLeast
<1> HIDE DEF C
<1>2. ASSUME NEW X \in SUBSET C, X # {}, X \cap seeds = {}, Closed(E, X) PROVE FALSE
  <2>1. Closed(E, C \ X) /\ seeds \subseteq C \ X
    BY <1>1, <1>2 DEF Closed
  <2>2. C \subseteq C \ X
    BY <1>1, <2>1
  <2> QED
    BY <1>2, <2>2
<1> QED
  BY <1>1, <1>2 DEF C

LEMMA ScopeLinks ==
    ASSUME GraphInv, MoneyInv, ScopeInv, NEW s \in Session, Link(s)
    PROVE  ScopeInv'
<1> DEFINE d == verb[s].debit
           c == verb[s].credit
           e == [id |-> 0, debit |-> d, credit |-> c, amount |-> Clamp(s, d, c), group |-> 0]
           lines == Component(edges \cup {e}, {d, c})
<1>1. d \in Line /\ c \in Line
  BY DEF Link, GraphInv, SessionInv, HoldInv, EndsIn
<1>2. CASE NothingToDo(s)
  BY <1>2, ScopeEnds, ScopeFrame DEF NothingToDo
<1>3. CASE /\ e.amount > 0
           /\ made' = [made EXCEPT ![s] = {e}]
           /\ comp' = [comp EXCEPT ![s] = lines]
           /\ want' = [want EXCEPT ![s] = lines]
           /\ pc' = [pc EXCEPT ![s] = "component"]
           /\ UNCHANGED <<graphVars, holder, verb, closure, gone, todo>>
  <2>1. Apart(s)
    BY OthersStay DEF Work
  <2>2. pc[s] = "pair" /\ verb[s].kind = "link" /\ gone[s] = {} /\ closure[s] = {}
    BY DEF Link, GraphInv, SessionInv, HoldInv, ScopeInv, VerbInv
  <2>3. e.debit = d /\ e.credit = c /\ e.amount > 0
    BY <1>3
  <2> HIDE DEF e
  <2>4. edges \subseteq Edge
    BY DEF MoneyInv, LedgerInv
  <2>5. Ends(edges \cup {e}) \subseteq Line
    <3>1. \A x \in edges \cup {e} : x.debit \in Line /\ x.credit \in Line
      BY <1>1, <2>3, <2>4 DEF Edge
    <3> QED
      BY <3>1, InEnds
  <2>6. {d, c} \in SUBSET Line
    BY <1>1
  <2>7. /\ {d, c} \subseteq lines /\ Closed(edges \cup {e}, lines)
        /\ \A X \in SUBSET lines : X # {} /\ X \cap {d, c} = {} => ~Closed(edges \cup {e}, X)
    <3> HIDE DEF d, c
    <3> QED
      BY <2>5, <2>6, NoIsland
  <2> HIDE DEF lines
  <2>8. /\ made'[s] = {e} /\ comp'[s] = lines /\ pc'[s] = "component"
        /\ closure' = closure /\ gone' = gone /\ verb' = verb /\ edges' = edges
    BY <1>3 DEF graphVars, GraphInv, ShapeInv
  <2>9. VerbInv(s)' /\ FreedInv(s)'
    BY <2>2, <2>3, <2>8 DEF VerbInv, FreedInv
  <2>10. ComponentInv(s)'
    <3>1. Seeds(s)' = {d, c}
      <4>1. Seeds(s)' = Ends({e})
        BY <2>2, <2>8 DEF Seeds, Ends
      <4> QED
        BY <2>3, <4>1, EndsOfOne
    <3>2. Kept(s)' = edges
      BY <2>2, <2>8 DEF Kept
    <3>3. Closed(edges, lines)
      BY <2>7 DEF Closed
    <3>4. \A X \in SUBSET lines : X # {} /\ X \cap {d, c} = {} => ~Closed(edges, X)
      BY <2>3, <2>7 DEF Closed
    <3>5. \A l \in Line : l \in {e.debit, e.credit} => l \in lines
      BY <2>3, <2>7
    <3> HIDE DEF d, c
    <3> QED
      BY <2>7, <2>8, <3>1, <3>2, <3>3, <3>4, <3>5 DEF ComponentInv, Closed
  <2> QED
    BY <1>3, <2>1, <2>9, <2>10, ScopeFrame
<1> QED
  BY <1>2, <1>3 DEF Link

LEMMA ScopeUnlinks ==
    ASSUME GraphInv, MoneyInv, ScopeInv, NEW s \in Session, Unlink(s)
    PROVE  ScopeInv'
<1> DEFINE E == Closure(s)
           left == {e \in edges : \A f \in E : ~SameRow(e, f)}
           lines == Component(left, Ends(E))
<1>1. CASE NothingToDo(s)
  BY <1>1, ScopeEnds, ScopeFrame DEF NothingToDo
<1>2. CASE /\ closure' = [closure EXCEPT ![s] = E]
           /\ gone' = [gone EXCEPT ![s] = E]
           /\ comp' = [comp EXCEPT ![s] = lines]
           /\ want' = [want EXCEPT ![s] = lines]
           /\ todo' = [todo EXCEPT ![s] = Ends(E)]
           /\ pc' = [pc EXCEPT ![s] = "component"]
           /\ UNCHANGED <<graphVars, holder, verb, made>>
  <2>1. Apart(s)
    BY OthersStay DEF Work
  <2>2. made[s] = {} /\ verb[s].kind # "link"
    BY DEF Unlink, GraphInv, SessionInv, HoldInv
  <2>3. edges \subseteq Edge /\ left \subseteq edges /\ E \subseteq Edge
    BY DEF MoneyInv, LedgerInv, DraftInv, Closure
  <2>4. Ends(E) \in SUBSET Line /\ Ends(left) \subseteq Line
    <3>1. \A x \in E \cup left : x.debit \in Line /\ x.credit \in Line
      BY <2>3 DEF Edge
    <3> HIDE DEF E, left
    <3> QED
      BY <3>1, InEnds
  <2> HIDE DEF E
  <2>5. /\ Ends(E) \subseteq lines /\ Closed(left, lines)
        /\ \A X \in SUBSET lines : X # {} /\ X \cap Ends(E) = {} => ~Closed(left, X)
    <3> HIDE DEF left
    <3> QED
      BY <2>4, NoIsland
  <2> HIDE DEF lines
  <2>6. /\ closure'[s] = E /\ gone'[s] = E /\ comp'[s] = lines
        /\ todo'[s] = Ends(E) /\ pc'[s] = "component" /\ made' = made
        /\ edges' = edges /\ verb' = verb
    <3> HIDE DEF left
    <3> QED
      BY <1>2 DEF graphVars, GraphInv, ShapeInv
  <2>7. Seeds(s)' = Ends(E) /\ Ends(closure[s])' = Ends(E)
    BY <2>2, <2>6 DEF Seeds, Ends
  <2>8. VerbInv(s)' /\ FreedInv(s)'
    BY <2>2, <2>6, <2>7 DEF VerbInv, FreedInv
  <2>9. ComponentInv(s)'
    <3>1. Kept(s)' = left
      BY <2>6 DEF Kept
    <3> HIDE DEF left
    <3> QED
      BY <2>2, <2>5, <2>6, <2>7, <3>1 DEF ComponentInv, Closed
  <2> QED
    BY <1>2, <2>1, <2>8, <2>9, ScopeFrame
<1> QED
  BY <1>1, <1>2 DEF Unlink

LEMMA ScopeLooks ==
    ASSUME GraphInv, ScopeInv, NEW s \in Session, LookForReversals(s)
    PROVE  ScopeInv'
<1>1. CASE EndTx(s) /\ UNCHANGED graphVars
  BY <1>1, ScopeEnds, ScopeFrame
<1>2. CASE /\ pc' = [pc EXCEPT ![s] = "reversal"]
           /\ UNCHANGED <<graphVars, holder, verb, want, closure, made, gone, comp, todo>>
  <2>1. Apart(s)
    BY OthersStay DEF Work
  <2>2. edges' = edges /\ pc[s] = "component" /\ verb[s].kind # "link" /\ pc'[s] = "reversal"
    BY <1>2 DEF LookForReversals, graphVars, GraphInv, ShapeInv
  <2>3. Ends(closure[s])' = Ends(closure[s]) /\ Kept(s)' = Kept(s) /\ Seeds(s)' = Seeds(s)
    BY <1>2, <2>2 DEF Ends, Kept, Seeds
  <2>4. VerbInv(s)'
    BY <1>2, <2>2, <2>3 DEF VerbInv, ScopeInv
  <2>5. ComponentInv(s)'
    BY <1>2, <2>2, <2>3 DEF ComponentInv, ScopeInv, Closed, On
  <2>6. todo'[s] = Ends(closure[s])'
    BY <1>2, <2>2, <2>3 DEF VerbInv, ScopeInv
  <2>7. FreedInv(s)'
    BY <2>6 DEF FreedInv
  <2> QED
    BY <1>2, <2>1, <2>4, <2>5, <2>7, ScopeFrame
<1> QED
  BY <1>1, <1>2 DEF LookForReversals


LEMMA ScopePairs ==
    ASSUME GraphInv, MoneyInv, ScopeInv, NEW s \in Session, NEW l \in Line, PairReversal(s, l)
    PROVE  ScopeInv'
<1> DEFINE r == Reversal[l]
           d == IF l \in Debit THEN l ELSE r
           c == IF l \in Debit THEN r ELSE l
           e == [id |-> 0, debit |-> d, credit |-> c,
                 amount |-> Min({Face[d], Face[c]}), group |-> 0]
<1>1. /\ UNCHANGED graphVars /\ edges' = edges /\ flag' = flag /\ pc' = pc /\ verb' = verb
      /\ closure' = closure /\ gone' = gone /\ comp' = comp
      /\ todo'[s] = todo[s] \ {l} /\ l \in todo[s] /\ pc[s] = "reversal"
  BY DEF PairReversal, NextTodo, graphVars, GraphInv, ShapeInv
<1>2. Apart(s)
  BY OthersStay DEF Locking
<1>3. Kept(s)' = Kept(s) /\ Ends(closure[s])' = Ends(closure[s]) /\ Ends(gone[s])' = Ends(gone[s])
  BY <1>1 DEF Kept, Ends
<1>4. /\ VerbInv(s) /\ ComponentInv(s) /\ FreedInv(s) /\ verb[s].kind # "link"
      /\ Seeds(s) = Ends(gone[s]) /\ Seeds(s)' = Seeds(s) /\ l \in comp[s]
  BY <1>1, <1>3 DEF ScopeInv, VerbInv, ComponentInv, Seeds
<1>5. Rows(Visible(s)) /\ Visible(s) = Kept(s) \cup made[s] /\ Kept(s) \subseteq edges
  BY ViewRows
<1>6. \A k \in Line : Left(s, k) \in Int /\ Left(s, k) <= Face[k] /\ Face[k] \in Nat
  BY <1>5, ResidualType DEF Left
<1>7. Reversal[l] = Nil \/ Reversal[l] \in Line
  BY LineAssumption
<1>8. CASE made' = made
  <2>1. \A k : Left(s, k)' = Left(s, k)
    BY <1>1, <1>8, SameView
  <2>2. VerbInv(s)' /\ ComponentInv(s)'
    BY <1>1, <1>3, <1>4, <1>8 DEF VerbInv, ComponentInv, Closed, On
  <2>3. Mine(s) \subseteq Mine(s)' /\ (r # Nil /\ Unapplied(s, l) => r \in Mine(s)' /\ ~Unapplied(s, r))
    <3>1. CASE UNCHANGED holder /\ (r = Nil \/ ~Unapplied(s, l))
      BY <3>1 DEF Mine
    <3>2. CASE /\ r # Nil /\ Unapplied(s, l) /\ holder[r] \in {Nil, s}
               /\ holder' = [holder EXCEPT ![r] = s] /\ ~Unapplied(s, r)
      <4>1. Mine(s)' = Mine(s) \cup {r}
        <5> HIDE DEF r
        <5> QED
          BY <1>7, <3>2, GrantKeepsOthers DEF r
      <4> QED
        BY <3>2, <4>1
    <3>3. CASE /\ r # Nil /\ Unapplied(s, l) /\ Unapplied(s, r)
               /\ holder[r] \in {Nil, s} /\ holder' = [holder EXCEPT ![r] = s]
               /\ made' = [made EXCEPT ![s] = @ \cup {e}]
      <4>1. e \in made[s]
        BY <1>8, <3>3 DEF GraphInv, ShapeInv
      <4>2. e \in Visible(s) /\ l \in {e.debit, e.credit} /\ e.amount > 0 /\ e.amount \in Nat
        BY <1>4, <1>5, <4>1 DEF VerbInv, Rows
      <4>3. Left(s, l) <= Face[l] - e.amount
        BY <1>5, <4>2, RowTakes DEF Left
      <4>4. Left(s, l) = Face[l]
        BY <3>3 DEF Unapplied, Left
      <4> QED
        BY <1>6, <4>2, <4>3, <4>4
    <3> QED
      BY <3>1, <3>2, <3>3 DEF PairReversal
  <2>4. FreedInv(s)'
    <3> SUFFICES ASSUME NEW k \in Ends(closure[s]) \ todo'[s]
                 PROVE  \/ Reversal[k] = Nil \/ Left(s, k) < Face[k]
                        \/ Reversal[k] \in Mine(s)' /\ Left(s, Reversal[k]) < Face[Reversal[k]]
      BY <1>1, <1>3, <2>1 DEF FreedInv
    <3>1. CASE k = l
      BY <1>6, <1>7, <2>3, <3>1 DEF Unapplied, Left
    <3>2. CASE k # l
      BY <1>1, <1>4, <2>3, <3>2 DEF FreedInv
    <3> QED
      BY <3>1, <3>2
  <2> QED
    BY <1>1, <1>2, <2>2, <2>4, ScopeFrame
<1>9. CASE /\ r # Nil /\ Unapplied(s, l) /\ Unapplied(s, r)
           /\ holder[r] \in {Nil, s} /\ holder' = [holder EXCEPT ![r] = s]
           /\ made' = [made EXCEPT ![s] = @ \cup {e}]
  <2>1. r \in Line /\ {d, c} = {l, r}
    BY <1>7, <1>9
  <2>2. e.debit = d /\ e.credit = c /\ e.amount = Min({Face[d], Face[c]})
    OBVIOUS
  <2>3. e.amount \in Nat /\ e.amount > 0
    <3>1. \A a, b \in Nat \ {0} : Min({a, b}) \in Nat /\ Min({a, b}) > 0
      <4> SUFFICES ASSUME NEW a \in Nat \ {0}, NEW b \in Nat \ {0}
                   PROVE  Min({a, b}) \in Nat /\ Min({a, b}) > 0
        OBVIOUS
      <4>1. Min({a, b}) \in {a, b}
        BY LeastOfTwo
      <4> QED
        BY <4>1
    <3>2. d \in Line /\ c \in Line
      BY <2>1
    <3> HIDE DEF d, c, e
    <3>3. Face[d] \in Nat \ {0} /\ Face[c] \in Nat \ {0}
      BY <3>2, LineAssumption
    <3> QED
      BY <2>2, <3>1, <3>3
  <2> HIDE DEF e
  <2>4. made'[s] = made[s] \cup {e}
    BY <1>9 DEF GraphInv, ShapeInv
  <2>5. VerbInv(s)'
    BY <1>1, <1>3, <1>4, <2>3, <2>4 DEF VerbInv
  <2>6. ComponentInv(s)'
    <3>1. \A f \in Visible(s) : f.amount > 0
      BY <1>4, <1>5 DEF VerbInv, ScopeInv
    <3>2. On(Visible(s), r) = {}
      BY <1>5, <1>9, <2>1, <3>1, UnappliedIsFree DEF Unapplied
    <3>3. On(Kept(s), r) = {}
      BY <1>5, <3>2 DEF On
    <3>4. \A f \in made'[s], k \in Line :
             k \in {f.debit, f.credit} => k \in comp[s] \/ On(Kept(s), k) = {}
      <4> HIDE DEF r, d, c
      <4> QED
        BY <1>1, <1>4, <2>1, <2>2, <2>4, <3>3 DEF ComponentInv
    <3> HIDE DEF r, d, c
    <3> QED
      BY <1>1, <1>3, <1>4, <3>4 DEF ComponentInv, Closed, On
  <2>7. /\ \A k \in Line : Left(s, k)' <= Left(s, k)
        /\ Left(s, l)' < Face[l] /\ \A k \in Line : Left(s, k)' \in Int
    <3> DEFINE V == Visible(s) \cup {e}
    <3>1. Visible(s)' = V
      BY <1>1, <2>4 DEF Visible
    <3>2. \A k : Left(s, k)' = Residual(V, k)
      BY <3>1 DEF Left, Residual
    <3>3. Rows(V)
      BY <1>5, <2>3, FS_AddElement DEF Rows
    <3>4. e \in V /\ l \in {e.debit, e.credit} /\ Visible(s) \subseteq V
      BY <2>2
    <3> HIDE DEF V
    <3>5. Residual(V, l) <= Face[l] - e.amount
      BY <3>3, <3>4, RowTakes
    <3>6. \A k \in Line : Residual(V, k) <= Left(s, k) /\ Residual(V, k) \in Int
      BY <3>3, <3>4, ResidualOfLess, ResidualType DEF Left
    <3> QED
      BY <1>6, <2>3, <3>2, <3>5, <3>6
  <2>8. Mine(s) \subseteq Mine(s)'
    <3>1. holder[r] \in {Nil, s} /\ holder' = [holder EXCEPT ![r] = s]
      BY <1>9
    <3>2. r \in Line
      BY <2>1
    <3> HIDE DEF r
    <3>3. Mine(s)' = Mine(s) \cup {r}
      BY <3>1, <3>2, GrantKeepsOthers
    <3> QED
      BY <3>3
  <2>9. FreedInv(s)'
    <3> SUFFICES ASSUME NEW k \in Ends(closure[s]) \ todo'[s]
                 PROVE  \/ Reversal[k] = Nil \/ Left(s, k)' < Face[k]
                        \/ Reversal[k] \in Mine(s)' /\ Left(s, Reversal[k])' < Face[Reversal[k]]
      BY <1>1, <1>3 DEF FreedInv
    <3>1. CASE k = l
      BY <2>7, <3>1
    <3>2. CASE k # l
      <4>1. \/ Reversal[k] = Nil \/ Left(s, k) < Face[k]
            \/ Reversal[k] \in Mine(s) /\ Left(s, Reversal[k]) < Face[Reversal[k]]
        BY <1>1, <1>4, <3>2 DEF FreedInv
      <4>2. k \in Line
        <5>1. todo[s] \in SUBSET Line /\ closure[s] \subseteq Edge
          BY DEF MoneyInv, DraftInv
        <5>2. Ends(closure[s]) \subseteq Line
          BY <5>1, InEnds DEF Edge
        <5> QED
          BY <5>2
      <4>3. Reversal[k] \in Mine(s) => Reversal[k] \in Line
        BY DEF Mine
      <4> QED
        BY <1>6, <2>7, <2>8, <4>1, <4>2, <4>3
    <3> QED
      BY <3>1, <3>2
  <2> QED
    BY <1>1, <1>2, <2>5, <2>6, <2>9, ScopeFrame
<1> QED
  BY <1>8, <1>9 DEF PairReversal

-----------------------------------------------------------------------------
(* A commit leaves the components of the others alone.                     *)

Touched(s) == comp[s] \cup Ends(gone[s]) \cup Ends(made[s])

LEMMA TouchedHeld ==
    ASSUME GraphInv, NEW s \in Session, CommitLink(s) \/ CommitUnlink(s)
    PROVE  pc[s] \in {"component", "reversal"} /\ Touched(s) \subseteq Mine(s)
<1>1. pc[s] \in {"component", "reversal"} /\ want[s] = {}
  BY DEF CommitLink, CommitUnlink, GraphInv, SessionInv, HoldInv
<1>2. comp[s] \subseteq Mine(s) /\ \A e \in made[s] \cup gone[s] : EndsIn(e, Mine(s))
  BY <1>1 DEF GraphInv, SessionInv, HoldInv
<1> QED
  BY <1>1, <1>2, InEnds DEF Touched, EndsIn

\* No committed edge leads out of what a verb touches.
LEMMA TouchedClosed ==
    ASSUME GraphInv, MoneyInv, ScopeInv, NEW s \in Session, pc[s] \in {"component", "reversal"}
    PROVE  Closed(edges, Touched(s))
<1>1. ASSUME NEW x \in edges, NEW l \in {x.debit, x.credit}, NEW k \in {x.debit, x.credit},
             l \in Touched(s)
      PROVE  k \in Touched(s)
  <2>1. VerbInv(s) /\ ComponentInv(s)
    BY DEF ScopeInv
  <2>2. Ends(gone[s]) \subseteq comp[s]
    BY <2>1 DEF VerbInv, ComponentInv, Seeds, Ends
  <2>3. CASE x \notin Kept(s)
    <3>1. PICK f \in gone[s] : SameRow(x, f)
      BY <2>3 DEF Kept
    <3>2. SameEnds(x, f)
      BY <3>1 DEF GraphInv, SessionInv, KnownInv
    <3> QED
      BY <3>2, InEnds DEF SameEnds, Touched
  <2>4. CASE x \in Kept(s)
    <3>1. l \in Line
      BY DEF MoneyInv, LedgerInv, Edge
    <3>2. x \in On(Kept(s), l)
      BY <2>4 DEF On
    <3>3. l \in comp[s]
      <4>1. CASE l \in Ends(made[s])
        <5>1. PICK e \in made[s] : l \in {e.debit, e.credit}
          BY <4>1, InEnds
        <5> QED
          BY <2>1, <3>1, <3>2, <5>1 DEF ComponentInv
      <4> QED
        BY <1>1, <2>2, <4>1 DEF Touched
    <3>4. Closed(Kept(s), comp[s])
      BY <2>1 DEF ComponentInv
    <3>5. k \in comp[s]
      BY <2>4, <3>3, <3>4 DEF Closed
    <3> QED
      BY <3>5 DEF Touched
  <2> QED
    BY <2>3, <2>4
<1> QED
  BY <1>1 DEF Closed

\* Components of verbs that lock and grow side by side: the one that commits
\* first touches nothing of the other's.
LEMMA ComponentsApart ==
    ASSUME GraphInv, MoneyInv, ScopeInv, NEW s \in Session, CommitLink(s) \/ CommitUnlink(s),
           NEW t \in Session, t # s, pc[t] \in {"component", "reversal"}
    PROVE  comp[t] \cap Touched(s) = {} /\ Mine(t) \cap Touched(s) = {}
<1> DEFINE X == comp[t] \cap Touched(s)
<1>1. Touched(s) \subseteq Mine(s) /\ pc[s] \in {"component", "reversal"}
  BY TouchedHeld
<1>2. Mine(t) \cap Touched(s) = {}
  BY <1>1 DEF Mine
<1>3. Seeds(t) \cap X = {}
  <2>1. \A e \in made[t] \cup gone[t] : EndsIn(e, Mine(t))
    BY DEF GraphInv, SessionInv, HoldInv
  <2>2. Seeds(t) \subseteq Mine(t)
    BY <2>1, InEnds DEF Seeds, EndsIn
  <2> QED
    BY <1>2, <2>2
<1>4. ComponentInv(t)
  BY DEF ScopeInv
<1>5. ASSUME X # {} PROVE FALSE
  <2>1. ~Closed(Kept(t), X)
    BY <1>3, <1>4, <1>5 DEF ComponentInv
  <2>2. Closed(Kept(t), comp[t])
    BY <1>4 DEF ComponentInv
  <2>3. Closed(edges, Touched(s)) /\ Kept(t) \subseteq edges
    BY <1>1, TouchedClosed DEF Kept
  <2> QED
    BY <2>1, <2>2, <2>3 DEF Closed
<1> QED
  BY <1>2, <1>5

\* Off what a commit touches, a session keeps the edges it kept.
LEMMA CommitKeeps ==
    ASSUME GraphInv, MoneyInv, ScopeInv, NEW s \in Session, CommitLink(s) \/ CommitUnlink(s),
           NEW G \in [Line -> Nat], Write(s, G), NEW t \in Session, t # s,
           NEW l, l \notin Touched(s)
    PROVE  /\ \A x \in Kept(t)' : l \in {x.debit, x.credit} =>
                 \E e \in Kept(t) : SameEnds(x, e)
           /\ \A e \in Kept(t) : l \in {e.debit, e.credit} =>
                 \E x \in Kept(t)' : SameEnds(x, e)
<1>1. PICK H :
         /\ edges' = {H[e] : e \in Visible(s)}
         /\ \A e \in Visible(s) :
               H[e] \in Edge /\ H[e].amount = e.amount /\ SameEnds(H[e], e)
         /\ \A e \in Kept(s) : H[e].id = e.id
  BY CommitMap
<1>2. gone'[t] = gone[t]
  <2>1. Apart(s)
    BY OthersStay DEF Work
  <2> QED
    BY <2>1 DEF Apart
<1>3. Visible(s) = Kept(s) \cup made[s] /\ Kept(s) \subseteq edges
  BY ViewRows
<1>4. \A e \in made[s] \cup gone[s] : l \notin {e.debit, e.credit}
  BY InEnds DEF Touched
<1>5. ASSUME NEW x \in Kept(t)', l \in {x.debit, x.credit}
      PROVE  \E e \in Kept(t) : SameEnds(x, e)
  <2>1. x \in edges' /\ \A f \in gone[t] : ~SameRow(x, f)
    BY <1>2, <1>5 DEF Kept, SameRow
  <2>2. PICK e \in Visible(s) : x = H[e]
    BY <1>1, <2>1
  <2>3. SameEnds(x, e)
    BY <1>1, <2>2
  <2>4. e \in Kept(s)
    BY <1>3, <1>4, <1>5, <2>3 DEF SameEnds
  <2>5. x.id = e.id /\ e \in edges
    BY <1>1, <1>3, <2>2, <2>4
  <2>6. e \in Kept(t)
    BY <2>1, <2>5 DEF Kept, SameRow
  <2> QED
    BY <2>3, <2>6
<1>6. ASSUME NEW e \in Kept(t), l \in {e.debit, e.credit}
      PROVE  \E x \in Kept(t)' : SameEnds(x, e)
  <2>1. e \in edges /\ \A f \in gone[t] : ~SameRow(e, f)
    BY DEF Kept
  <2>2. \A f \in gone[s] : SameRow(e, f) => SameEnds(e, f)
    BY <2>1 DEF GraphInv, SessionInv, KnownInv
  <2>3. e \in Kept(s)
    BY <1>4, <1>6, <2>1, <2>2 DEF Kept, SameEnds
  <2>4. H[e] \in edges' /\ H[e].id = e.id /\ SameEnds(H[e], e)
    BY <1>1, <1>3, <2>3
  <2>5. H[e] \in Kept(t)'
    BY <1>2, <2>1, <2>4 DEF Kept, SameRow
  <2> QED
    BY <2>4, <2>5
<1> QED
  BY <1>5, <1>6

LEMMA CommitKeepsComponent ==
    ASSUME GraphInv, MoneyInv, ScopeInv, NEW s \in Session, CommitLink(s) \/ CommitUnlink(s),
           NEW G \in [Line -> Nat], Write(s, G), NEW t \in Session, t # s
    PROVE  ComponentInv(t)'
<1>1. /\ pc'[t] = pc[t] /\ verb'[t] = verb[t] /\ made'[t] = made[t] /\ gone'[t] = gone[t]
      /\ comp'[t] = comp[t]
  <2>1. Apart(s)
    BY OthersStay DEF Work
  <2> QED
    BY <2>1 DEF Apart
<1> SUFFICES ASSUME pc[t] \in {"component", "reversal"}
             PROVE  /\ Seeds(t)' \subseteq comp[t]
                    /\ Closed(Kept(t)', comp[t])
                    /\ \A X \in SUBSET comp[t] :
                          X # {} /\ X \cap Seeds(t)' = {} => ~Closed(Kept(t)', X)
                    /\ \A e \in made[t], l \in Line :
                          l \in {e.debit, e.credit} => l \in comp[t] \/ On(Kept(t)', l) = {}
  BY <1>1 DEF ComponentInv, Closed, On
<1>2. Seeds(t)' = Seeds(t)
  BY <1>1 DEF Seeds, Ends
<1>3. comp[t] \cap Touched(s) = {} /\ Mine(t) \cap Touched(s) = {}
  BY ComponentsApart
<1>4. /\ Seeds(t) \subseteq comp[t]
      /\ Closed(Kept(t), comp[t])
      /\ \A X \in SUBSET comp[t] : X # {} /\ X \cap Seeds(t) = {} => ~Closed(Kept(t), X)
      /\ \A e \in made[t], l \in Line :
            l \in {e.debit, e.credit} => l \in comp[t] \/ On(Kept(t), l) = {}
  BY DEF ScopeInv, ComponentInv
<1>5. \A l : l \notin Touched(s) =>
         /\ \A x \in Kept(t)' : l \in {x.debit, x.credit} => \E e \in Kept(t) : SameEnds(x, e)
         /\ \A e \in Kept(t) : l \in {e.debit, e.credit} => \E x \in Kept(t)' : SameEnds(x, e)
  BY CommitKeeps
<1>6. Closed(Kept(t)', comp[t])
  <2> SUFFICES ASSUME NEW x \in Kept(t)', x.debit \in comp[t] \/ x.credit \in comp[t]
               PROVE  x.debit \in comp[t] /\ x.credit \in comp[t]
    BY DEF Closed
  <2>1. PICK e \in Kept(t) : SameEnds(x, e)
    BY <1>3, <1>5
  <2> QED
    BY <1>4, <2>1 DEF Closed, SameEnds
<1>7. ASSUME NEW X \in SUBSET comp[t], X # {}, X \cap Seeds(t) = {}, Closed(Kept(t)', X)
      PROVE  FALSE
  <2>1. PICK e \in Kept(t) : ~(e.debit \in X <=> e.credit \in X)
    BY <1>4, <1>7 DEF Closed
  <2>2. PICK x \in Kept(t)' : SameEnds(x, e)
    BY <1>3, <1>5, <2>1
  <2> QED
    BY <1>7, <2>1, <2>2 DEF Closed, SameEnds
<1>8. ASSUME NEW e \in made[t], NEW l \in Line, l \in {e.debit, e.credit}, l \notin comp[t]
      PROVE  On(Kept(t)', l) = {}
  <2>1. l \in Mine(t)
    BY <1>8 DEF GraphInv, SessionInv, HoldInv, EndsIn
  <2>2. On(Kept(t), l) = {}
    BY <1>4, <1>8
  <2>3. ASSUME NEW x \in On(Kept(t)', l) PROVE FALSE
    <3>1. PICK f \in Kept(t) : SameEnds(x, f)
      BY <1>3, <1>5, <2>1 DEF On
    <3> QED
      BY <2>2, <3>1 DEF On, SameEnds
  <2> QED
    BY <2>3
<1> QED
  BY <1>2, <1>4, <1>6, <1>7, <1>8

LEMMA ScopeWrites ==
    ASSUME GraphInv, MoneyInv, ScopeInv, NEW s \in Session, CommitLink(s) \/ CommitUnlink(s)
    PROVE  ScopeInv'
<1>1. PICK G \in [Line -> Nat] : Write(s, G)
  BY GroupsFit
<1>2. Apart(s) /\ VerbInv(s)' /\ ComponentInv(s)' /\ FreedInv(s)'
  BY <1>1, ScopeEnds DEF Write
<1>3. \A e \in edges' : e.amount > 0
  <2>1. PICK H :
           /\ edges' = {H[e] : e \in Visible(s)}
           /\ \A e \in Visible(s) : H[e].amount = e.amount
    BY <1>1, CommitMap
  <2>2. \A e \in Visible(s) : e.amount > 0
    BY DEF Visible, ScopeInv, VerbInv
  <2> QED
    BY <2>1, <2>2
<1>4. ASSUME NEW t \in Session, t # s PROVE VerbInv(t)' /\ ComponentInv(t)' /\ FreedInv(t)'
  <2>1. /\ pc'[t] = pc[t] /\ verb'[t] = verb[t] /\ want'[t] = want[t]
        /\ closure'[t] = closure[t] /\ made'[t] = made[t] /\ gone'[t] = gone[t]
        /\ comp'[t] = comp[t] /\ todo'[t] = todo[t] /\ Mine(t)' = Mine(t)
    BY <1>2, <1>4 DEF Apart, Mine
  <2>2. Ends(closure[t])' = Ends(closure[t])
    BY <2>1 DEF Ends
  <2>3. VerbInv(t)'
    BY <2>1, <2>2 DEF ScopeInv, VerbInv
  <2>4. ComponentInv(t)'
    BY <1>1, <1>4, CommitKeepsComponent
  <2>5. FreedInv(t)'
    <3> SUFFICES ASSUME pc[t] = "reversal", NEW l \in Ends(closure[t]) \ todo[t]
                 PROVE  \/ Reversal[l] = Nil \/ Left(t, l)' < Face[l]
                        \/ Reversal[l] \in Mine(t) /\ Left(t, Reversal[l])' < Face[Reversal[l]]
      BY <2>1, <2>2 DEF FreedInv
    <3>1. \/ Reversal[l] = Nil \/ Left(t, l) < Face[l]
          \/ Reversal[l] \in Mine(t) /\ Left(t, Reversal[l]) < Face[Reversal[l]]
      BY DEF ScopeInv, FreedInv
    <3>2. \A k \in Mine(t) : Left(t, k)' = Left(t, k)
      BY <1>1, <1>4, CommitSeen DEF Mine
    <3>3. l \in Mine(t)
      <4>1. Ends(closure[t]) = Ends(gone[t])
        BY DEF ScopeInv, VerbInv
      <4>2. \A e \in gone[t] : EndsIn(e, Mine(t))
        BY DEF GraphInv, SessionInv, HoldInv
      <4> QED
        BY <4>1, <4>2, InEnds DEF EndsIn
    <3> QED
      BY <3>1, <3>2, <3>3
  <2> QED
    BY <2>3, <2>4, <2>5
<1> QED
  BY <1>2, <1>3, <1>4 DEF ScopeInv

-----------------------------------------------------------------------------
LEMMA InitScope == Init => ScopeInv
BY DEF Init, NoVerb, ScopeInv, VerbInv, ComponentInv, FreedInv

LEMMA ScopeStepKeeps == GraphInv /\ MoneyInv /\ ScopeInv /\ [Next]_vars => ScopeInv'
<1> SUFFICES ASSUME GraphInv, MoneyInv, ScopeInv, [Next]_vars PROVE ScopeInv'
  OBVIOUS
<1>1. CASE UNCHANGED vars
  <2>1. /\ edges' = edges /\ flag' = flag /\ pc' = pc /\ verb' = verb /\ closure' = closure
        /\ made' = made /\ gone' = gone /\ comp' = comp /\ todo' = todo /\ holder' = holder
    BY <1>1 DEF vars, graphVars, sessionVars
  <2>2. ASSUME NEW s \in Session PROVE VerbInv(s)' /\ ComponentInv(s)' /\ FreedInv(s)'
    <3>1. Kept(s)' = Kept(s) /\ (\A l : Left(s, l)' = Left(s, l)) /\ Mine(s)' = Mine(s)
      BY <2>1, SameView DEF Kept, Mine
    <3>2. Seeds(s)' = Seeds(s) /\ Ends(closure[s])' = Ends(closure[s])
      BY <2>1 DEF Seeds, Ends
    <3> QED
      BY <2>1, <3>1, <3>2 DEF ScopeInv, VerbInv, ComponentInv, FreedInv, Closed, On
  <2> QED
    BY <2>1, <2>2 DEF ScopeInv
<1>2. ASSUME NEW s \in Session, Start(s) PROVE ScopeInv'
  BY <1>2, ScopeStarts
<1>3. ASSUME NEW s \in Session, Work(s) PROVE ScopeInv'
  BY <1>3, ScopeLinks, ScopeUnlinks, ScopeLooks, ScopeWrites DEF Work
<1>4. ASSUME NEW s \in Session, Locking(s) PROVE ScopeInv'
  BY <1>4, ScopeLocks, ScopePairs DEF Locking
<1>5. ASSUME NEW s \in Session, Abort(s) PROVE ScopeInv'
  BY <1>5, ScopeEnds, ScopeFrame DEF Abort
<1> QED
  BY <1>1, <1>2, <1>3, <1>4, <1>5 DEF Next, Idle

LEMMA ScopeKept == Spec => [](GraphInv /\ MoneyInv /\ ScopeInv)
<1>1. Init => GraphInv /\ MoneyInv /\ ScopeInv
  BY InitGraph, InitMoney, InitScope
<1>2. GraphInv /\ MoneyInv /\ ScopeInv /\ [Next]_vars => (GraphInv /\ MoneyInv /\ ScopeInv)'
  BY StepKeeps, MoneyStepKeeps, ScopeStepKeeps
<1> QED
  BY <1>1, <1>2, PTL DEF Spec

\* Only a commit writes rows.
LEMMA OnlyCommitsWrite ==
    ASSUME [Next]_vars, edges' # edges
    PROVE  \E s \in Session : CommitLink(s) \/ CommitUnlink(s)
BY DEF Next, Idle, Start, Work, Locking, StartLink, StartUnlinkPair, StartUnlink, Begin, Link,
       Unlink, NothingToDo, LookForReversals, LockLine, PairReversal, Abort, vars, graphVars

\* What the query finds once a link has committed is what its session locked.
LEMMA LinkedComponent ==
    ASSUME GraphInv, MoneyInv, ScopeInv, NEW s \in Session, CommitLink(s),
           NEW G \in [Line -> Nat], Write(s, G)
    PROVE  Component(edges', Ends(made[s])) = comp[s]
<1> DEFINE lines == Component(edges', Ends(made[s]))
<1>1. PICK H :
         /\ edges' = {H[e] : e \in Visible(s)}
         /\ \A e \in Visible(s) : H[e] \in Edge /\ SameEnds(H[e], e)
  BY CommitMap
<1>2. Visible(s) = Kept(s) \cup made[s]
  BY ViewRows
<1>3. Seeds(s) = Ends(made[s]) /\ pc[s] = "component"
  BY DEF CommitLink, Seeds
<1>4. /\ Ends(made[s]) \subseteq comp[s] /\ Closed(Kept(s), comp[s]) /\ comp[s] \subseteq Line
      /\ \A X \in SUBSET comp[s] : X # {} /\ X \cap Ends(made[s]) = {} => ~Closed(Kept(s), X)
  BY <1>3 DEF ScopeInv, ComponentInv, MoneyInv, DraftInv
<1>5. \A e \in made[s] : e.debit \in comp[s] /\ e.credit \in comp[s]
  BY <1>4, InEnds
<1>6. Closed(edges', comp[s])
  BY <1>1, <1>2, <1>4, <1>5 DEF Closed, SameEnds
<1>7. Ends(edges') \subseteq Line
  <2>1. \A x \in edges' : x.debit \in Line /\ x.credit \in Line
    BY <1>1 DEF Edge
  <2> QED
    BY <2>1, InEnds
<1>8. /\ Ends(made[s]) \subseteq lines /\ Closed(edges', lines)
      /\ \A X : Ends(made[s]) \subseteq X /\ Closed(edges', X) => lines \subseteq X
  <2>1. Ends(made[s]) \in SUBSET Line
    BY <1>4
  <2> QED
    BY <1>7, <2>1, ComponentIsLeast
<1> HIDE DEF lines
<1>9. lines \subseteq comp[s]
  BY <1>4, <1>6, <1>8
<1>10. comp[s] \ lines = {}
  <2> SUFFICES ASSUME comp[s] \ lines # {} PROVE FALSE
    OBVIOUS
  <2>1. ~Closed(Kept(s), comp[s] \ lines)
    BY <1>4, <1>8
  <2>2. Closed(Kept(s), lines)
    BY <1>1, <1>2, <1>8 DEF Closed, SameEnds
  <2> QED
    BY <1>4, <2>1, <2>2 DEF Closed
<1> QED
  BY <1>9, <1>10 DEF lines

LEMMA LinkStamps ==
    ASSUME GraphInv, MoneyInv, ScopeInv, NEW s \in Session, CommitLink(s)
    PROVE  LET lines == Component(edges', Ends(made[s]))
           IN  (\A l \in lines : Residual(edges', l) = 0) =>
                  \/ \A l \in lines : flag'[l] # 0
                  \/ Cardinality({flag[l] : l \in lines} \ {0}) > 1
<1> DEFINE G == ComponentGroup(s)
<1>1. Write(s, G) /\ G \in [Line -> Nat]
  BY GroupForType DEF CommitLink, ComponentGroup
<1>2. Component(edges', Ends(made[s])) = comp[s]
  BY <1>1, LinkedComponent
<1>3. \A l \in Line : Residual(edges', l) = Left(s, l)
  BY <1>1, CommitLeaves DEF Residual
<1>4. gone[s] = {} /\ comp[s] \subseteq Line
  BY DEF CommitLink, ScopeInv, VerbInv, MoneyInv, DraftInv
<1>5. \A l : Stamp(s, l) = flag[l]
  BY <1>4 DEF Stamp, Ends
<1>6. Stamps(s) = {flag[l] : l \in comp[s]} \ {0}
  BY <1>5 DEF Stamps
<1> SUFFICES ASSUME \A l \in comp[s] : Residual(edges', l) = 0,
                    ~(Cardinality({flag[l] : l \in comp[s]} \ {0}) > 1),
                    NEW l \in comp[s]
             PROVE  flag'[l] # 0
  BY <1>2
<1>7. Settled(s)
  BY <1>3, <1>4 DEF Settled, Left
<1>8. GroupFor(s) # 0
  <2>1. lastGroup \in Nat
    BY DEF MoneyInv, LedgerInv
  <2>2. ~(~Settled(s) \/ Cardinality(Stamps(s)) > 1)
    BY <1>6, <1>7
  <2>3. 0 \notin Stamps(s)
    BY DEF Stamps
  <2>4. Stamps(s) # {} => (CHOOSE g \in Stamps(s) : TRUE) \in Stamps(s)
    OBVIOUS
  <2> HIDE DEF G
  <2> QED
    BY <2>1, <2>2, <2>3, <2>4 DEF GroupFor
<1>9. flag'[l] = Coalesce(Stamp(s, l), GroupFor(s))
  BY <1>1, <1>4 DEF Write, ComponentGroup
<1> QED
  BY <1>8, <1>9 DEF Coalesce

\* The link that settles a component stamps every line of it, however many
\* sessions extend overlapping components, or its lines carry two groups.
THEOREM LinkStampsComponent == Spec => LinkStampsSettled
<1> DEFINE Good(s) ==
      verb[s].kind = "link" /\ pc'[s] = "idle" /\ edges' # edges =>
          LET lines == Component(edges', Ends(made[s])) IN
          (\A l \in lines : Residual(edges', l) = 0) =>
              \/ \A l \in lines : flag'[l] # 0
              \/ Cardinality({flag[l] : l \in lines} \ {0}) > 1
           AllGood == \A s \in Session : Good(s)
<1>1. ASSUME GraphInv, MoneyInv, ScopeInv, [Next]_vars PROVE AllGood
  <2> SUFFICES ASSUME NEW s \in Session,
                      verb[s].kind = "link", pc'[s] = "idle", edges' # edges
               PROVE  Good(s)
    OBVIOUS
  <2>1. PICK t \in Session : CommitLink(t) \/ CommitUnlink(t)
    BY <1>1, OnlyCommitsWrite
  <2>2. VerbInv(s)
    BY <1>1 DEF ScopeInv
  <2>3. t = s
    <3> SUFFICES ASSUME t # s PROVE FALSE
      OBVIOUS
    <3>1. Apart(t)
      BY <1>1, <2>1, OthersStay DEF Work
    <3>2. pc[s] = "idle"
      BY <3>1 DEF Apart
    <3> QED
      BY <2>2, <3>2 DEF VerbInv
  <2>4. CommitLink(s)
    BY <2>1, <2>2, <2>3 DEF CommitUnlink, VerbInv
  <2> QED
    BY <1>1, <2>4, LinkStamps
<1>2. [][AllGood]_vars <=> LinkStampsSettled
  BY DEF LinkStampsSettled
<1> HIDE DEF AllGood
<1>3. GraphInv /\ MoneyInv /\ ScopeInv /\ [Next]_vars => [AllGood]_vars
  BY <1>1
<1> QED
  BY <1>2, <1>3, ScopeKept, PTL DEF Spec

\* An unlink that frees a line wholly leaves no wholly unapplied reversal of it
\* behind, whatever the others commit while it looks.
THEOREM FreedReversed == Spec => FreedIsReversed
<1> DEFINE Good(s) ==
      pc[s] = "reversal" /\ pc'[s] = "idle" /\ edges' # edges =>
          \A l \in Ends(closure[s]) : Reversal[l] # Nil =>
              ~(Residual(edges', l) = Face[l] /\ Residual(edges', Reversal[l]) = Face[Reversal[l]])
           AllGood == \A s \in Session : Good(s)
<1>1. ASSUME GraphInv, MoneyInv, ScopeInv, [Next]_vars PROVE AllGood
  <2> SUFFICES ASSUME NEW s \in Session,
                      pc[s] = "reversal", pc'[s] = "idle", edges' # edges,
                      NEW l \in Ends(closure[s]), Reversal[l] # Nil
               PROVE  ~(Residual(edges', l) = Face[l]
                          /\ Residual(edges', Reversal[l]) = Face[Reversal[l]])
    OBVIOUS
  <2>1. PICK t \in Session : CommitLink(t) \/ CommitUnlink(t)
    BY <1>1, OnlyCommitsWrite
  <2>2. t = s
    <3> SUFFICES ASSUME t # s PROVE FALSE
      OBVIOUS
    <3>1. Apart(t)
      BY <1>1, <2>1, OthersStay DEF Work
    <3> QED
      BY <3>1 DEF Apart
  <2>3. todo[s] = {}
    BY <2>1, <2>2 DEF CommitLink, CommitUnlink
  <2>4. PICK G \in [Line -> Nat] : Write(s, G)
    BY <1>1, <2>1, <2>2, GroupsFit
  <2>5. \A k \in Line : Residual(edges', k) = Left(s, k)
    BY <1>1, <2>4, CommitLeaves DEF Residual
  <2>6. l \in Line
    <3>1. closure[s] \subseteq Edge
      BY <1>1 DEF MoneyInv, DraftInv
    <3> QED
      BY <3>1, InEnds DEF Edge
  <2>7. Reversal[l] \in Line
    BY <2>6, LineAssumption
  <2>8. Left(s, l) < Face[l] \/ Left(s, Reversal[l]) < Face[Reversal[l]]
    BY <1>1, <2>3 DEF ScopeInv, FreedInv
  <2>9. Face[l] \in Nat /\ Face[Reversal[l]] \in Nat
    BY <2>6, <2>7, LineAssumption
  <2> QED
    BY <2>5, <2>6, <2>7, <2>8, <2>9
<1>2. [][AllGood]_vars <=> FreedIsReversed
  BY DEF FreedIsReversed
<1> HIDE DEF AllGood
<1>3. GraphInv /\ MoneyInv /\ ScopeInv /\ [Next]_vars => [AllGood]_vars
  BY <1>1
<1> QED
  BY <1>2, <1>3, ScopeKept, PTL DEF Spec
=============================================================================
