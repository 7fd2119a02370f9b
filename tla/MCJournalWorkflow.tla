-------------------------- MODULE MCJournalWorkflow --------------------------
(***************************************************************************)
(* Instances of JournalWorkflow for TLC: alice submits, bob approves,      *)
(* carol rejects and voids, and two more calls repeat a post and a void.   *)
(***************************************************************************)
EXTENDS JournalWorkflow, TLC

CONSTANTS c1, c2, c3, c4, c5, c6, alice, bob, carol

Verbs == c1 :> "submit" @@ c2 :> "approve" @@ c3 :> "reject" @@
         c4 :> "post" @@ c5 :> "void" @@ c6 :> "void"
People == c1 :> alice @@ c2 :> bob @@ c3 :> carol @@
          c4 :> Nil @@ c5 :> carol @@ c6 :> bob

\* alice submits the journal and asks to approve it.
SelfVerbs == c1 :> "submit" @@ c2 :> "approve"
SelfPeople == c1 :> alice @@ c2 :> alice
=============================================================================
