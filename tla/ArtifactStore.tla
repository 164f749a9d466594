--------------------------- MODULE ArtifactStore ---------------------------
(* What publication promises to the commands that read the artifact directory:
   a store that serves at most one whole generation, may hold one more aside,
   and gives up a copy only for another one that is committed.               *)
CONSTANTS Gens,  \* artifact generations
          None   \* no generation is served

VARIABLES visible,  \* the generation under the published name, or None
          pending,  \* the visible generation is not committed yet
          saved     \* the generation held aside, as a set of at most one

storeVars == <<visible, pending, saved>>

StoreInit == visible \in Gens \cup {None} /\ pending = FALSE /\ saved = {}

\* A new generation becomes visible where none is, to be committed or withdrawn.
Show(g)  == visible = None /\ visible' = g /\ pending' = TRUE /\ UNCHANGED saved
Commit   == pending /\ pending' = FALSE /\ UNCHANGED <<visible, saved>>
Withdraw == pending /\ visible' = None /\ pending' = FALSE /\ UNCHANGED saved

\* The visible generation is held aside, and put back or given up.
SetAside == /\ visible # None /\ ~pending /\ saved = {}
            /\ saved' = {visible} /\ visible' = None /\ UNCHANGED pending
PutBack  == /\ visible = None /\ saved # {}
            /\ saved = {visible'} /\ saved' = {} /\ UNCHANGED pending
GiveUp   == /\ visible # None /\ ~pending /\ saved # {}
            /\ saved' = {} /\ UNCHANGED <<visible, pending>>

StoreNext == \/ \E g \in Gens : Show(g)
             \/ Commit \/ Withdraw \/ SetAside \/ PutBack \/ GiveUp

StoreSpec == StoreInit /\ [][StoreNext]_storeVars

\* A committed generation, visible or aside.
Held == (visible # None /\ ~pending) \/ saved # {}
=============================================================================
