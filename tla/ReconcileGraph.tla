--------------------------- MODULE ReconcileGraph ---------------------------
(***************************************************************************)
(* ReconcileWriteService over SqlxReconcileGraphRepository: sessions link  *)
(* debit lines with credit lines by partial reconciles (edges), unlink     *)
(* them again, and group a component of the graph once all of it is        *)
(* settled.  Nothing of a line is stored but its group stamp; what is left *)
(* of it is always its face less the edges on it.                          *)
(*                                                                         *)
(* A verb is one READ COMMITTED transaction that takes row locks on lines, *)
(* one at a time: first the pair, then whatever its reads made it want.    *)
(* All it writes are rows on lines it holds, so its writes are applied at  *)
(* its commit; until then made, gone and affected say what it sees of its  *)
(* own.  Lines are named by integers in the order of their uuids.  Rates   *)
(* are equal and no tax is deferred here: the journals an edge generates   *)
(* are the subject of SettlementMoves.                                     *)
(***************************************************************************)
EXTENDS Integers, FiniteSets, FiniteSetsExt

CONSTANTS
    Session,     \* database sessions, each running one verb after the other
    Line,        \* journal lines
    Debit,       \* those that carry a debit
    Face,        \* base_debit_amount + base_credit_amount
    Pairable,    \* <<debit, credit>> pairs that pass guards G2 to G6
    Reversal,    \* the line of the posted reversal journal, if there is one
    Amount,      \* amounts a caller asks to apply
    MaxEdge,     \* bound: partials ever inserted
    Nil

ASSUME LineAssumption ==
    /\ Line \subseteq Nat /\ IsFiniteSet(Line) /\ Debit \subseteq Line
    /\ Face \in [Line -> Nat \ {0}]
    /\ Pairable \subseteq Line \X Line
    /\ Reversal \in [Line -> Line \cup {Nil}]
    /\ Amount \subseteq Nat
ASSUME NilAssumption == Nil \notin Session \cup Line

VARIABLES
    edges,       \* partial_reconciles
    groups,      \* full_reconciles
    flag,        \* journal_lines.full_reconcile_id, 0 while NULL
    lastEdge, lastGroup,   \* ids handed out
    holder,      \* which session holds each line FOR UPDATE
    pc,          \* where each session's verb is
    verb,        \* the verb it runs
    want,        \* lines it has decided to lock and has not yet
    closure,     \* the partials an unlink is about, as it read them
    made, gone,  \* partials it has inserted and deleted
    comp,        \* the component it read
    todo         \* lines it has still to look for a reversal of

graphVars == <<edges, groups, flag, lastEdge, lastGroup>>
sessionVars == <<pc, verb, want, closure, made, gone, comp, todo>>
vars == <<graphVars, holder, sessionVars>>

\* id and group are 0 while the row has none: ids are drawn at the commit.
Edge == [id : Nat, debit : Line, credit : Line, amount : Nat, group : Nat]

Verb == [kind : {"none", "link", "unlink", "unlink_pair"},
         debit : Line \cup {Nil}, credit : Line \cup {Nil}, amount : Nat]
NoVerb == [kind |-> "none", debit |-> Nil, credit |-> Nil, amount |-> 0]

TypeOK ==
    /\ edges \subseteq Edge /\ groups \subseteq Nat
    /\ flag \in [Line -> Nat]
    /\ lastEdge \in Nat /\ lastGroup \in Nat
    /\ holder \in [Line -> Session \cup {Nil}]
    /\ pc \in [Session -> {"idle", "pair", "component", "reversal"}]
    /\ verb \in [Session -> Verb]
    /\ want \in [Session -> SUBSET Line]
    /\ closure \in [Session -> SUBSET Edge]
    /\ made \in [Session -> SUBSET Edge]
    /\ gone \in [Session -> SUBSET Edge]
    /\ comp \in [Session -> SUBSET Line]
    /\ todo \in [Session -> SUBSET Line]

Init ==
    /\ edges = {} /\ groups = {}
    /\ flag = [l \in Line |-> 0]
    /\ lastEdge = 0 /\ lastGroup = 0
    /\ holder = [l \in Line |-> Nil]
    /\ pc = [s \in Session |-> "idle"]
    /\ verb = [s \in Session |-> NoVerb]
    /\ want = [s \in Session |-> {}]
    /\ closure = [s \in Session |-> {}]
    /\ made = [s \in Session |-> {}]
    /\ gone = [s \in Session |-> {}]
    /\ comp = [s \in Session |-> {}]
    /\ todo = [s \in Session |-> {}]

-----------------------------------------------------------------------------
(* The graph as a session sees it: the committed edges and its own work.   *)

SameRow(e, f) == e.id = f.id
Visible(s) == {e \in edges : \A f \in gone[s] : ~SameRow(e, f)} \cup made[s]

On(E, l) == {e \in E : l \in {e.debit, e.credit}}

\* RESIDUAL_EXPR.
Residual(E, l) == Face[l] - SumFunction([e \in On(E, l) |-> e.amount])

Ends(E) == UNION {{e.debit, e.credit} : e \in E}

\* component_line_ids: what the recursive query reaches from the seeds.
Component(E, seeds) ==
    LET reach[n \in Nat] ==
          IF n = 0 THEN seeds
          ELSE LET r == reach[n - 1] IN r \cup Ends({e \in E : Ends({e}) \cap r # {}})
    IN  reach[Cardinality(Line)]

StampUncleared(s, l) ==        \* bug: only the debit line's flags are cleared
    IF l \in {e.debit : e \in gone[s]} THEN 0 ELSE flag[l]
StampNil(s, l) ==              \* bug: the cleared stamp is no NULL
    IF l \in Ends(gone[s]) THEN Nil ELSE flag[l]

\* clear_line_flags: an unlink clears the stamps of the ends of its closure.
Stamp(s, l) == IF l \in Ends(gone[s]) THEN 0 ELSE flag[l]

-----------------------------------------------------------------------------
(* A verb begins: the lines it locks first.                                *)

Begin(s, v, lines, read) ==
    /\ pc[s] = "idle"
    /\ pc' = [pc EXCEPT ![s] = "pair"]
    /\ verb' = [verb EXCEPT ![s] = v]
    /\ want' = [want EXCEPT ![s] = lines]
    /\ closure' = [closure EXCEPT ![s] = read]
    /\ UNCHANGED <<graphVars, holder, made, gone, comp, todo>>

\* reconcile_pair_on.
StartLink(s, d, c, n) ==
    /\ lastEdge < MaxEdge
    /\ Begin(s, [kind |-> "link", debit |-> d, credit |-> c, amount |-> n], {d, c}, {})

\* unreconcile_pair_on.
StartUnlinkPair(s, d, c) ==
    /\ lastEdge <= MaxEdge
    /\ Begin(s, [NoVerb EXCEPT !.kind = "unlink_pair", !.debit = d, !.credit = c],
             {d, c}, {})

\* unreconcile_on: load_partial reads the row before any lock is taken.
StartUnlink(s, e) ==
    /\ lastEdge <= MaxEdge
    /\ Begin(s, [NoVerb EXCEPT !.kind = "unlink"], Ends({e}), {e})

\* The pair is locked debit first, every other set of lines in id order.
LocksNext(s, l) ==
    /\ l \in want[s]
    /\ IF pc[s] = "pair" /\ verb[s].debit \in want[s]
       THEN l = verb[s].debit
       ELSE \A k \in want[s] : l <= k

LockLineUnlocked(s, l) ==      \* bug: the credit line is read without FOR UPDATE
    /\ LocksNext(s, l)
    /\ \/ holder[l] \in {Nil, s} /\ holder' = [holder EXCEPT ![l] = s]
       \/ l = verb[s].credit /\ UNCHANGED holder
    /\ want' = [want EXCEPT ![s] = @ \ {l}]
    /\ UNCHANGED <<graphVars, pc, verb, closure, made, gone, comp, todo>>

\* One row of a SELECT ... FOR UPDATE: wait for whoever holds it.
LockLine(s, l) ==
    /\ LocksNext(s, l)
    /\ holder[l] \in {Nil, s}
    /\ holder' = [holder EXCEPT ![l] = s]
    /\ want' = [want EXCEPT ![s] = @ \ {l}]
    /\ UNCHANGED <<graphVars, pc, verb, closure, made, gone, comp, todo>>

-----------------------------------------------------------------------------
(* The end of a verb.                                                      *)

EndTx(s) ==
    /\ holder' = [l \in Line |-> IF holder[l] = s THEN Nil ELSE holder[l]]
    /\ pc' = [pc EXCEPT ![s] = "idle"]
    /\ verb' = [verb EXCEPT ![s] = NoVerb]
    /\ want' = [want EXCEPT ![s] = {}]
    /\ closure' = [closure EXCEPT ![s] = {}]
    /\ made' = [made EXCEPT ![s] = {}]
    /\ gone' = [gone EXCEPT ![s] = {}]
    /\ comp' = [comp EXCEPT ![s] = {}]
    /\ todo' = [todo EXCEPT ![s] = {}]

NothingToDoLeaky(s) ==         \* bug: the transaction is left open
    pc' = [pc EXCEPT ![s] = "idle"]
    /\ UNCHANGED <<graphVars, holder, verb, want, closure, made, gone, comp, todo>>

\* A refused pair, a clamp to zero, or nothing to unlink.
NothingToDo(s) == EndTx(s) /\ UNCHANGED graphVars

\* Any statement or the connection fails: everything is rolled back.
Abort(s) ==
    /\ pc[s] # "idle"
    /\ EndTx(s)
    /\ UNCHANGED graphVars

-----------------------------------------------------------------------------
(* Both lines of the pair are locked: the edge, or the closure.            *)

\* G7: never more than either side has left.
Clamp(s, d, c) ==
    Min({verb[s].amount, Residual(edges, d), Residual(edges, c)})

\* validate_pair, insert_partial, and the component as it is read without
\* locks on the rest of it.
Link(s) ==
    /\ pc[s] = "pair" /\ verb[s].kind = "link" /\ want[s] = {}
    /\ LET d == verb[s].debit
           c == verb[s].credit
           e == [id |-> 0, debit |-> d, credit |-> c, amount |-> Clamp(s, d, c), group |-> 0]
           lines == Component(edges \cup {e}, {d, c})
       IN  \/ /\ <<d, c>> \notin Pairable \/ e.amount = 0
              /\ NothingToDo(s)
           \/ /\ <<d, c>> \in Pairable /\ e.amount > 0
              /\ made' = [made EXCEPT ![s] = {e}]
              /\ comp' = [comp EXCEPT ![s] = lines]
              /\ want' = [want EXCEPT ![s] = lines]
              /\ pc' = [pc EXCEPT ![s] = "component"]
              /\ UNCHANGED <<graphVars, holder, verb, closure, gone, todo>>

\* The partials an unlink takes out: those now between the pair, or the one
\* it loaded, as it loaded it.
Closure(s) ==
    IF verb[s].kind = "unlink" THEN closure[s]
    ELSE {e \in edges : Ends({e}) = {verb[s].debit, verb[s].credit}}

\* unlink_partials up to the component read.
Unlink(s) ==
    /\ pc[s] = "pair" /\ verb[s].kind \in {"unlink", "unlink_pair"} /\ want[s] = {}
    /\ LET E == Closure(s)
           left == {e \in edges : \A f \in E : ~SameRow(e, f)}
           lines == Component(left, Ends(E))
       IN  \/ /\ E = {}
              /\ NothingToDo(s)
           \/ /\ E # {}
              /\ closure' = [closure EXCEPT ![s] = E]
              /\ gone' = [gone EXCEPT ![s] = E]
              /\ comp' = [comp EXCEPT ![s] = lines]
              /\ want' = [want EXCEPT ![s] = lines]
              /\ todo' = [todo EXCEPT ![s] = Ends(E)]
              /\ pc' = [pc EXCEPT ![s] = "component"]
              /\ UNCHANGED <<graphVars, holder, verb, made>>

-----------------------------------------------------------------------------
(* The component is locked: complete_group_for, then the reversals.        *)

Settled(s) == \A l \in comp[s] : Residual(Visible(s), l) = 0

\* distinct_group_stamps.
Stamps(s) == {Stamp(s, l) : l \in comp[s]} \ {0}

\* The group the component gets: a new one, the one it has, or none.
GroupFor(s) ==
    IF ~Settled(s) \/ Cardinality(Stamps(s)) > 1 THEN 0
    ELSE IF Stamps(s) = {} THEN lastGroup + 1
    ELSE CHOOSE g \in Stamps(s) : TRUE

\* Groups an unlink leaves without a partial.
Emptied(s) ==
    {e.group : e \in gone[s]} \ ({0} \cup {e.group : e \in Visible(s)})

\* The foreign key of journal_lines: a group cannot go while a line has it.
DissolveAllowed(s) == \A l \in Line : Stamp(s, l) \notin Emptied(s)

Coalesce(old, new) == IF old = 0 THEN new ELSE old

\* attach_group on the partials of the component: G gives each line's group.
AttachPartials(E, G) ==
    {[e EXCEPT !.group = Coalesce(@, Max({G[e.debit], G[e.credit]}))] : e \in E}

ComponentGroupPair(s) ==       \* bug: only the pair gets the group
    [l \in Line |-> IF l \in Ends(made[s]) THEN GroupFor(s) ELSE 0]

\* The lines of the component get its group.
ComponentGroup(s) == [l \in Line |-> IF l \in comp[s] THEN GroupFor(s) ELSE 0]

\* A reversal that has the face of what it reverses settles the two at once.
ReversalGroup(s) ==
    LET full == {e \in made[s] : Face[e.debit] = Face[e.credit]}
        number(e) == lastGroup + Cardinality({f \in full : f.debit <= e.debit})
    IN  [l \in Line |-> IF l \in Ends(full)
                        THEN number(CHOOSE e \in full : l \in Ends({e})) ELSE 0]

\* Row ids of what the transaction has inserted.
UpTo(E, e) ==
    {f \in E : f.debit < e.debit \/ (f.debit = e.debit /\ f.credit <= e.credit)}
Numbered(E) == {[e EXCEPT !.id = lastEdge + Cardinality(UpTo(E, e))] : e \in E}

\* What the transaction leaves behind, with groups G attached to lines.
Write(s, G) ==
    /\ edges' = AttachPartials((Visible(s) \ made[s]) \cup Numbered(made[s]), G)
    /\ flag' = [l \in Line |-> Coalesce(Stamp(s, l), G[l])]
    /\ groups' = (groups \ Emptied(s)) \cup ({G[l] : l \in Line} \ {0})
    /\ lastEdge' = lastEdge + Cardinality(made[s])
    /\ lastGroup' = Max({lastGroup} \cup {G[l] : l \in Line})
    /\ EndTx(s)

\* After a link neither line is wholly unapplied, so it pairs no reversal.
CommitLink(s) ==
    /\ pc[s] = "component" /\ verb[s].kind = "link" /\ want[s] = {}
    /\ Write(s, ComponentGroup(s))

\* The dissolve comes before the grouping and fails the verb if it fails.
LookForReversals(s) ==
    /\ pc[s] = "component" /\ verb[s].kind # "link" /\ want[s] = {}
    /\ IF DissolveAllowed(s)
       THEN /\ pc' = [pc EXCEPT ![s] = "reversal"]
            /\ UNCHANGED <<graphVars, holder, verb, want, closure, made, gone, comp, todo>>
       ELSE EndTx(s) /\ UNCHANGED graphVars

Unapplied(s, l) == Residual(Visible(s), l) = Face[l]
NextTodo(s, l) == l \in todo[s] /\ \A k \in todo[s] : l <= k

PairReversalDebits(s, l) ==    \* bug: only debit lines look for their reversal
    /\ pc[s] = "reversal" /\ NextTodo(s, l)
    /\ LET r == Reversal[l] IN
       \/ /\ r = Nil \/ ~Unapplied(s, l) \/ l \notin Debit
          /\ UNCHANGED <<holder, made>>
       \/ /\ r # Nil /\ Unapplied(s, l) /\ l \in Debit
          /\ holder[r] \in {Nil, s}
          /\ holder' = [holder EXCEPT ![r] = s]
          /\ made' = IF ~Unapplied(s, r) THEN made ELSE [made EXCEPT ![s] = @ \cup
                        {[id |-> 0, debit |-> l, credit |-> r,
                          amount |-> Min({Face[l], Face[r]}), group |-> 0]}]
    /\ todo' = [todo EXCEPT ![s] = @ \ {l}]
    /\ UNCHANGED <<graphVars, pc, verb, want, closure, gone, comp>>

\* One turn of pair_reversal_counterparts: the line is held, its reversal is
\* locked, and both must be wholly unapplied.
PairReversal(s, l) ==
    /\ pc[s] = "reversal" /\ NextTodo(s, l)
    /\ LET r == Reversal[l] IN
       \/ /\ r = Nil \/ ~Unapplied(s, l)
          /\ UNCHANGED <<holder, made>>
       \/ /\ r # Nil /\ Unapplied(s, l)
          /\ holder[r] \in {Nil, s}
          /\ holder' = [holder EXCEPT ![r] = s]
          /\ LET d == IF l \in Debit THEN l ELSE r
                 c == IF l \in Debit THEN r ELSE l
             IN  made' = IF ~Unapplied(s, r) THEN made ELSE [made EXCEPT ![s] = @ \cup
                            {[id |-> 0, debit |-> d, credit |-> c,
                              amount |-> Min({Face[d], Face[c]}), group |-> 0]}]
    /\ todo' = [todo EXCEPT ![s] = @ \ {l}]
    /\ UNCHANGED <<graphVars, pc, verb, want, closure, gone, comp>>

\* A component with a line that is wholly unapplied is not settled, so an
\* unlink attaches either its component or the reversals it paired.
CommitUnlink(s) ==
    /\ pc[s] = "reversal" /\ todo[s] = {}
    /\ Write(s, IF made[s] = {} THEN ComponentGroup(s) ELSE ReversalGroup(s))

-----------------------------------------------------------------------------
WaitsFor(s, t) ==
    /\ s # t
    /\ \E l \in Line :
          /\ holder[l] = t
          /\ \/ LocksNext(s, l)
             \/ /\ pc[s] = "reversal"
                /\ \E k \in todo[s] : NextTodo(s, k) /\ Unapplied(s, k) /\ Reversal[k] = l

\* PostgreSQL ends a deadlock by failing one of the transactions in it.
Deadlocked(s) ==
    \E S \in SUBSET Session : s \in S /\ \A x \in S :
        (\E y \in S : WaitsFor(x, y)) /\ (\E y \in S : WaitsFor(y, x))

Victim(s) == Deadlocked(s) /\ Abort(s)

Work(s) ==
    \/ Link(s) \/ Unlink(s) \/ CommitLink(s) \/ LookForReversals(s) \/ CommitUnlink(s)
Locking(s) == \E l \in Line : LockLine(s, l) \/ PairReversal(s, l)

Start(s) ==
    \/ \E d, c \in Line, n \in Amount : StartLink(s, d, c, n)
    \/ \E p \in Pairable : StartUnlinkPair(s, p[1], p[2])
    \/ \E e \in edges : StartUnlink(s, e)

Idle == lastEdge >= MaxEdge /\ (\A s \in Session : pc[s] = "idle") /\ UNCHANGED vars

Next == Idle \/ \E s \in Session : Start(s) \/ Work(s) \/ Locking(s) \/ Abort(s)

Spec == Init /\ [][Next]_vars

\* The task of a verb goes on being run, a row lock is queued for, and the
\* server finds deadlocks; that a connection fails is not assumed.
FairSpec == Spec /\ \A s \in Session :
    WF_vars(Work(s)) /\ SF_vars(Locking(s)) /\ WF_vars(Victim(s))

-----------------------------------------------------------------------------
(* Properties.                                                             *)

\* RGG-10: however links race over a shared line, no line is ever applied
\* beyond its face.
NothingOverApplied == \A l \in Line : Residual(edges, l) >= 0

\* is_reconciled is set "only at full-group completion" and taken back by any
\* unlink: a stamped line has nothing left.
StampedIsSettled == \A l \in Line : flag[l] # 0 => Residual(edges, l) = 0

\* "Concurrent reconciles over a shared line serialize on the line lock": what
\* one verb has read of a line it holds, nobody else changes.
SameEdges(E, F, l) ==
    {<<e.id, e.amount>> : e \in On(E, l)} = {<<e.id, e.amount>> : e \in On(F, l)}

HeldIsStable ==
    [][\A l \in Line, s \in Session : holder[l] = s /\ holder'[l] = s =>
          SameEdges(edges, edges', l) /\ flag'[l] = flag[l]]_vars

\* However overlapping components grow and wait for each other, the link that
\* settles a component stamps all of it (unless its lines carry two groups).
LinkStampsSettled ==
    [][\A s \in Session : verb[s].kind = "link" /\ pc'[s] = "idle" /\ edges' # edges =>
          LET lines == Component(edges', Ends(made[s])) IN
          (\A l \in lines : Residual(edges', l) = 0) =>
              \/ \A l \in lines : flag'[l] # 0
              \/ Cardinality({flag[l] : l \in lines} \ {0}) > 1]_vars

\* Reverse-then-reconcile: an unlink that frees a line wholly leaves no wholly
\* unapplied reversal of it behind.
FreedIsReversed ==
    [][\A s \in Session : pc[s] = "reversal" /\ pc'[s] = "idle" /\ edges' # edges =>
          \A l \in Ends(closure[s]) : Reversal[l] # Nil =>
              ~(Residual(edges', l) = Face[l] /\ Residual(edges', Reversal[l]) = Face[Reversal[l]])]_vars

\* Every verb comes to an end, by its commit or as the victim of a deadlock.
EveryVerbEnds == \A s \in Session : pc[s] # "idle" ~> pc[s] = "idle"
=============================================================================
