----------------------------- MODULE Collector -----------------------------
(***************************************************************************)
(* The garbage collector of src/internal/gc: a periodic sweep that deletes *)
(* SandboxClaims whose VibedApp is gone although the owner-reference       *)
(* cascade did not remove them.                                            *)
(*                                                                         *)
(* The apps and claims of one namespace, by name (a claim has its app's    *)
(* name and carries it as its vibed.dev/app label), change between the     *)
(* collector's calls.                                                      *)
(***************************************************************************)
EXTENDS Naturals

CONSTANTS
    Names,
    None,
    MaxUid,       \* bound: apps created
    MaxErrors     \* bound: calls of the collector that fail

VARIABLES
    live,         \* by name: the uid of the VibedApp, or None
    claims,       \* by name: the SandboxClaim, or None
    uids,         \* uids given out
    gc,           \* the collector's cycle
    errors

vars == <<live, claims, uids, gc, errors>>

-----------------------------------------------------------------------------
\* app: the uid of the app it was made for, its owner reference.  old: its age
\* has reached MaxAge.
Claims == [app: 1..MaxUid, old: BOOLEAN]

\* active: the names of the app list.  todo: the claims handed to the
\* deleteRunner, as they were listed.  since (history): the uids given out when
\* the apps were listed.
Cycles == [pc: {"idle", "listed", "sweep"}, active: SUBSET Names,
           todo: [Names -> Claims \cup {None}], since: 0..MaxUid]

NoTodo == [n \in Names |-> None]
Idle == [pc |-> "idle", active |-> {}, todo |-> NoTodo, since |-> 0]

\* Apps, claims and the cycle have their shape.
TypeOK ==
    /\ live \in [Names -> 1..MaxUid \cup {None}]
    /\ claims \in [Names -> Claims \cup {None}]
    /\ uids \in 0..MaxUid
    /\ gc \in Cycles
    /\ errors \in 0..MaxErrors

Init ==
    /\ live = [n \in Names |-> None]
    /\ claims = [n \in Names |-> None]
    /\ uids = 0
    /\ gc = Idle
    /\ errors = 0

-----------------------------------------------------------------------------
(* The rest of the cluster.                                                *)

CreateApp(n) ==
    /\ live[n] = None /\ uids < MaxUid
    /\ uids' = uids + 1
    /\ live' = [live EXCEPT ![n] = uids + 1]
    /\ UNCHANGED <<claims, gc, errors>>

DeleteApp(n) ==
    /\ live[n] # None
    /\ live' = [live EXCEPT ![n] = None]
    /\ UNCHANGED <<claims, uids, gc, errors>>

\* The controller's EnsureClaim, labelled with the app's name.  A claim that
\* exists is taken as it is, whichever incarnation of the app it was made for:
\* only its status is read, and the app runs on the pod it is bound to.
EnsureClaim(n) ==
    /\ live[n] # None
    /\ claims' = [claims EXCEPT ![n] = IF @ = None THEN [app |-> live[n], old |-> FALSE] ELSE @]
    /\ UNCHANGED <<live, uids, gc, errors>>

\* The controller's ReleaseClaim of a suspended app, by name.
ReleaseClaim(n) ==
    /\ live[n] # None
    /\ claims' = [claims EXCEPT ![n] = None]
    /\ UNCHANGED <<live, uids, gc, errors>>

\* The owner-reference cascade of Kubernetes, by uid; it may never come.
Cascade(n) ==
    /\ claims[n] # None /\ claims[n].app # live[n]
    /\ claims' = [claims EXCEPT ![n] = None]
    /\ UNCHANGED <<live, uids, gc, errors>>

\* A claim reaches MaxAge.  MaxAge is longer than what lies between the two
\* lists of one cycle.
Ripen(n) ==
    /\ claims[n] # None /\ ~claims[n].old /\ gc.pc # "listed"
    /\ claims' = [claims EXCEPT ![n].old = TRUE]
    /\ UNCHANGED <<live, uids, gc, errors>>

-----------------------------------------------------------------------------
(* GarbageCollector.collect.                                               *)

Fails == errors < MaxErrors /\ errors' = errors + 1

Present == {n \in Names : live[n] # None}

\* listActiveApps, all its pages; on an error the cycle is skipped.
ListActiveApps ==
    /\ gc.pc = "idle"
    /\ \/ /\ gc' = [gc EXCEPT !.pc = "listed", !.active = @ \cup Present, !.since = uids]
          /\ UNCHANGED errors
       \/ Fails /\ UNCHANGED gc
    /\ UNCHANGED <<live, claims, uids>>

\* Faulty variant: no claim is spared for its age.
OrphanAtAnyAge(n) == claims[n] # None /\ n \notin gc.active

\* A labelled claim whose app is not in the active set and that is MaxAge old.
Orphan(n) == claims[n] # None /\ n \notin gc.active /\ claims[n].old

\* The orphans among the claims listed.
Orphans(listed) == [n \in Names |-> IF n \in listed /\ Orphan(n) THEN claims[n] ELSE None]

\* cleanOrphanedClaims: the list, and its orphans to the deleteRunner as each
\* page comes in; an error on a page ends the list, not the deletes begun.
ListClaims ==
    /\ gc.pc = "listed"
    /\ \E listed \in SUBSET Names :
          /\ gc' = [gc EXCEPT !.pc = "sweep", !.todo = Orphans(listed)]
          /\ \/ listed = Names /\ UNCHANGED errors
             \/ listed # Names /\ Fails
    /\ UNCHANGED <<live, claims, uids>>

\* One delete of the pool, by name alone; its error is logged.
Reap(n) ==
    /\ gc.pc = "sweep" /\ gc.todo[n] # None
    /\ gc' = [gc EXCEPT !.todo[n] = None]
    /\ \/ claims' = [claims EXCEPT ![n] = None] /\ UNCHANGED errors
       \/ Fails /\ UNCHANGED claims
    /\ UNCHANGED <<live, uids>>

\* Faulty variant: the active set outlives its cycle.
EndCycleKeepingActive ==
    /\ gc.pc = "sweep" /\ gc.todo = NoTodo
    /\ gc' = [Idle EXCEPT !.active = gc.active]
    /\ UNCHANGED <<live, claims, uids, errors>>

\* deleteRunner.wait, and the ticker again: the next cycle makes its own
\* active set.
EndCycle ==
    /\ gc.pc = "sweep" /\ gc.todo = NoTodo
    /\ gc' = Idle
    /\ UNCHANGED <<live, claims, uids, errors>>

Collect == ListActiveApps \/ ListClaims \/ (\E n \in Names : Reap(n)) \/ EndCycle

Environment ==
    \E n \in Names : \/ CreateApp(n) \/ DeleteApp(n) \/ EnsureClaim(n) \/ ReleaseClaim(n)
                    \/ Cascade(n) \/ Ripen(n)

Next == Collect \/ Environment

\* The ticker keeps firing, calls return, and a claim reaches MaxAge in some
\* pause between two cycles.
Fairness == WF_vars(Collect) /\ \A n \in Names : SF_vars(Ripen(n))

Spec == Init /\ [][Next]_vars

-----------------------------------------------------------------------------
\* "never touches a claim whose VibedApp is live" (collector.go), by name: when
\* a delete takes the claim of a live app, its own or one it took over, the app
\* was created after this cycle listed the apps, and what the cycle listed as
\* an orphan had been made for an earlier incarnation.
LiveClaimsKept ==
    [][\A n \in Names : Reap(n) /\ live[n] # None /\ claims[n] # claims'[n]
                           => live[n] > gc.since /\ gc.todo[n].app # live[n]]_vars

\* A claim whose app is gone for good does not stay, whether or not the
\* cascade fires and whichever calls fail in between.
OrphansReaped ==
    \A n \in Names :
       (claims[n] # None /\ live[n] = None) ~> (claims[n] = None \/ live[n] # None)
=============================================================================
