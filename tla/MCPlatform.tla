----------------------------- MODULE MCPlatform -----------------------------
(***************************************************************************)
(* Two parts of the server that share no state, side by side for TLC: a    *)
(* behaviour is one of the garbage collector or of the request handlers,   *)
(* as `part' says, and the other stands still.                             *)
(***************************************************************************)
EXTENDS Naturals, FiniteSets

CONSTANTS
    None,
    GcNames, MaxUid, MaxErrors,                           \* collector
    Calls, Users, Admins, Names, Label, Authorizers,      \* request handlers
    PerUser, Global, MaxCalls, MaxMoves

\* An app has a uid; the calls under way are finitely many.
ASSUME PlatformAssumption ==
    {MaxUid, MaxErrors} \subseteq Nat /\ None \notin 1..MaxUid /\ IsFiniteSet(Calls)

VARIABLES
    part,
    live, claims, uids, gc, errors,
    site, authorizer, call, slots, total, links, ever, made, moves

-----------------------------------------------------------------------------
GC == INSTANCE Collector WITH Names <- GcNames

\* The built-in owner check; an Authorizer that lets all read and one write.
MCAuthorizers ==
    {None, [read |-> Users \X Names, write |-> {CHOOSE u \in Users : TRUE} \X Names]}

\* Owner labels that collide.
MCLabel == [u \in Users |-> 0]

Api == INSTANCE HttpApi

gcVars == <<live, claims, uids, gc, errors>>
apiVars == <<site, authorizer, call, slots, total, links, ever, made, moves>>
vars == <<part, gcVars, apiVars>>

Init ==
    /\ part \in {"collector", "api"}
    /\ GC!Init /\ Api!Init
    /\ part = "collector" => authorizer = None /\ \A n \in Names : site[n] = None

Next ==
    /\ UNCHANGED part
    /\ \/ part = "collector" /\ GC!Next /\ UNCHANGED apiVars
       \/ part = "api" /\ Api!Next /\ UNCHANGED gcVars

\* The fairness of the part at work.
Fairness ==
    /\ WF_gcVars(part = "collector" /\ GC!Collect)
    /\ \A n \in GcNames : SF_gcVars(part = "collector" /\ GC!Ripen(n))
    /\ \A c \in Calls : /\ WF_apiVars(part = "api" /\ Api!Wait(c))
                          /\ WF_apiVars(part = "api" /\ Api!Expire(c))

Spec == Init /\ [][Next]_vars /\ Fairness

-----------------------------------------------------------------------------
(* The properties of the parts.                                            *)

\* Collector: the claim of a live app is not reaped for an orphan.
LiveClaimsKept == GC!LiveClaimsKept

\* Collector: the claim of an app that is gone for good does not stay.
OrphansReaped == GC!OrphansReaped

\* HttpApi: no answer tells a caller of an app the caller could never read.
ExistenceHidden == Api!ExistenceHidden

\* HttpApi: the stream counters are the streams that are open.
SlotsExact == Api!SlotsExact

\* HttpApi: no transition falls between the watch and the first Get.
NoTransitionMissed == Api!NoTransitionMissed

\* HttpApi: every wait for Ready is answered.
WaitsReturn == Api!WaitsReturn
=============================================================================
