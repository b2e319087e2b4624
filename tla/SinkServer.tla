------------------------------ MODULE SinkServer ------------------------------
(***************************************************************************)
(* Server.EstablishResourceStream of pkg/mcp/sink/server_sink.go, for      *)
(* several connections at once. The connections share the server's         *)
(* new-connection rate limiter and its one Sink. The limiter is a token    *)
(* bucket of capacity Burst that time refills; Wait(ctx) takes a token or  *)
(* fails once the stream's context is cancelled. The AuthChecker accepts   *)
(* the peers in Trusted; a peer without peer info is checked with nil      *)
(* authInfo, which the checker accepts iff AllowNil. ProcessStream ends    *)
(* with one of Outcomes.                                                   *)
(***************************************************************************)
EXTENDS Naturals, FiniteSets

CONSTANTS
    Conns,        \* incoming streams
    Trusted,      \* connections whose peer identity the AuthChecker accepts
    NoPeerInfo,   \* connections whose context carries no peer info
    AllowNil,     \* the AuthChecker's verdict on nil authInfo
    Outcomes,     \* how Sink.ProcessStream may return
    Burst,        \* the limiter's bucket capacity
    MaxRefills    \* bound on the limiter's refills

\* Outcomes of ProcessStream: nil, io.EOF, a status with code Canceled, and
\* any other error (e.g. a status with code Unavailable).
ASSUME Outcomes \subseteq {"nil", "eof", "canceled", "other"}

VARIABLES
    pc,        \* each stream's place in EstablishResourceStream
    canceled,  \* the stream's context has been cancelled
    tokens,    \* tokens in the limiter's bucket
    refills,   \* refills of the bucket so far
    outcome,   \* what ProcessStream returned to the stream's handler
    result     \* what EstablishResourceStream returned

vars == <<pc, canceled, tokens, refills, outcome, result>>

Results == Outcomes \cup {"nil", "waitErr", "unauthenticated", "none"}

Init ==
    /\ pc = [c \in Conns |-> "wait"]
    /\ canceled = [c \in Conns |-> FALSE]
    /\ tokens = Burst
    /\ refills = 0
    /\ outcome = [c \in Conns |-> "none"]
    /\ result = [c \in Conns |-> "none"]

-----------------------------------------------------------------------------
(* The environment: time refills the bucket, peers go away.                *)

Refill ==
    /\ tokens < Burst
    /\ refills < MaxRefills
    /\ tokens' = tokens + 1
    /\ refills' = refills + 1
    /\ UNCHANGED <<pc, canceled, outcome, result>>

Cancel(c) ==
    /\ ~canceled[c]
    /\ pc[c] # "done"
    /\ canceled' = [canceled EXCEPT ![c] = TRUE]
    /\ UNCHANGED <<pc, tokens, refills, outcome, result>>

-----------------------------------------------------------------------------
(* EstablishResourceStream.                                               *)

\* Mutant: Wait returns without waiting for a token.
WaitOkNoToken(c) ==
    /\ pc[c] = "wait"
    /\ tokens' = tokens - 1
    /\ pc' = [pc EXCEPT ![c] = "auth"]
    /\ UNCHANGED <<canceled, refills, outcome, result>>

\* newConnectionLimiter.Wait returns nil: a token is taken.
WaitOk(c) ==
    /\ pc[c] = "wait"
    /\ tokens > 0
    /\ tokens' = tokens - 1
    /\ pc' = [pc EXCEPT ![c] = "auth"]
    /\ UNCHANGED <<canceled, refills, outcome, result>>

\* Wait fails on the cancelled context; its error is returned as it is.
WaitErr(c) ==
    /\ pc[c] = "wait"
    /\ canceled[c]
    /\ pc' = [pc EXCEPT ![c] = "done"]
    /\ result' = [result EXCEPT ![c] = "waitErr"]
    /\ UNCHANGED <<canceled, tokens, refills, outcome>>

\* peer.FromContext, then authCheck.Check(authInfo).
AuthInfoAccepted(c) == IF c \in NoPeerInfo THEN AllowNil ELSE c \in Trusted

Authenticate(c) ==
    /\ pc[c] = "auth"
    /\ IF AuthInfoAccepted(c)
       THEN /\ pc' = [pc EXCEPT ![c] = "process"]
            /\ UNCHANGED result
       ELSE /\ pc' = [pc EXCEPT ![c] = "done"]
            /\ result' = [result EXCEPT ![c] = "unauthenticated"]
    /\ UNCHANGED <<canceled, tokens, refills, outcome>>

\* The mapping of ProcessStream's error: OK, Canceled and io.EOF are nil.
MapResult(o) == IF o \in {"nil", "canceled", "eof"} THEN "nil" ELSE o

\* s.sink.ProcessStream(stream) returns: a cancelled stream ends with a
\* Canceled status; otherwise any outcome is possible.
ProcessStream(c) ==
    /\ pc[c] = "process"
    /\ \E o \in Outcomes :
          /\ canceled[c] => o = "canceled"
          /\ outcome' = [outcome EXCEPT ![c] = o]
          /\ result' = [result EXCEPT ![c] = MapResult(o)]
    /\ pc' = [pc EXCEPT ![c] = "done"]
    /\ UNCHANGED <<canceled, tokens, refills>>

-----------------------------------------------------------------------------
Next ==
    \/ Refill
    \/ \E c \in Conns :
          Cancel(c) \/ WaitOk(c) \/ WaitErr(c) \/ Authenticate(c)
          \/ ProcessStream(c)

Spec == Init /\ [][Next]_vars

-----------------------------------------------------------------------------
(* Properties.                                                            *)

TypeOK ==
    /\ pc \in [Conns -> {"wait", "auth", "process", "done"}]
    /\ canceled \in [Conns -> BOOLEAN]
    /\ tokens \in 0..Burst /\ refills \in 0..MaxRefills
    /\ outcome \in [Conns -> Outcomes \cup {"none"}]
    /\ result \in [Conns -> Results]
=============================================================================
