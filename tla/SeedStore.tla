----------------------------- MODULE SeedStore -----------------------------
(***************************************************************************)
(* What a seed pool promises the process that talks to it, without the     *)
(* threads, the queues and the FIFOs that SeedPoolThread is made of.       *)
(*                                                                         *)
(* A client has at most one request open.  A store is answered only after  *)
(* the seed has been accepted, a pick only with a seed that was accepted,  *)
(* and an accepted seed is never dropped.                                  *)
(***************************************************************************)
CONSTANTS
    Seeds,              \* the seeds a client stores
    InitialSeeds,       \* the seeds the pool may be launched with
    NoSeed,             \* no answer yet
    PICK_SEED_REQUEST,  \* the request for a seed
    I_M_HERE            \* the acknowledgement of a store

VARIABLES
    accepted,  \* every seed the pool has taken responsibility for
    client,    \* "idle", "asking", "answered" or "gone"
    request,   \* the request last made
    answer     \* the answer to it, when the client is "answered"

vars == <<accepted, client, request, answer>>

Requests == Seeds \cup {PICK_SEED_REQUEST}

Init ==
    /\ accepted \in SUBSET InitialSeeds
    /\ client = "idle"
    /\ request \in Requests
    /\ answer = NoSeed

Ask(r) ==
    /\ client = "idle"
    /\ client' = "asking"
    /\ request' = r
    /\ UNCHANGED <<accepted, answer>>

\* The pool takes the seed of the open store request.
Accept ==
    /\ client = "asking"
    /\ request \in Seeds
    /\ accepted' = accepted \cup {request}
    /\ UNCHANGED <<client, request, answer>>

AnswerStore ==
    /\ client = "asking"
    /\ request \in Seeds \cap accepted
    /\ client' = "answered"
    /\ answer' = I_M_HERE
    /\ UNCHANGED <<accepted, request>>

AnswerPick ==
    /\ client = "asking"
    /\ request = PICK_SEED_REQUEST
    /\ answer' \in accepted
    /\ client' = "answered"
    /\ UNCHANGED <<accepted, request>>

\* The client is through with its request.
Return ==
    /\ client = "answered"
    /\ client' = "idle"
    /\ UNCHANGED <<accepted, request, answer>>

\* The client process gives up: it found no pool, or could not take an answer.
Leave ==
    /\ client = "asking"
    /\ client' = "gone"
    /\ UNCHANGED <<accepted, request, answer>>

Next ==
    \/ \E r \in Requests : Ask(r)
    \/ Accept
    \/ AnswerStore
    \/ AnswerPick
    \/ Return
    \/ Leave

Spec == Init /\ [][Next]_vars
=============================================================================
