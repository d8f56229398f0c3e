------------------------------- MODULE Relay -------------------------------
(***************************************************************************)
(* How Token Relay calls upstream: the provider keys that administrators   *)
(* add and delete, the registry that keeps one adapter per provider for    *)
(* the life of the process, and the requests that try a provider's keys in *)
(* the order of their priority and relay what upstream sends.              *)
(*                                                                         *)
(* Abstracted: a chunk is the number of the call that produced it and      *)
(* whether it is the body of an error; the model of a request is its       *)
(* provider; what a request costs is module Billing's.                     *)
(***************************************************************************)
EXTENDS Integers, SequencesExt

CONSTANTS
    ProviderKeys,  \* rows of table provider_keys
    Providers,     \* names of providers
    Chats,         \* chat completions that are not streamed
    Streams,       \* streamed chat completions
    Embeds,        \* embeddings
    ProviderOf,    \* ProviderOf[k], ProviderOf[r]: the provider of a key and of a request's model
    BaseUrl,       \* BaseUrl[k]: the base_url stored with key k
    Priority,      \* Priority[k]: smaller is tried first
    MaxChunks,     \* most chunks of one streamed call (bound of the model)
    MaxRestarts,   \* most restarts of the process (bound of the model)
    NoAdapter      \* no adapter is registered

Requests == Chats \cup Streams \cup Embeds

ASSUME RelayAssumption ==
    /\ Chats \cap Streams = {} /\ Chats \cap Embeds = {} /\ Streams \cap Embeds = {}
    /\ IsFiniteSet(ProviderKeys)
    /\ ProviderOf \in [ProviderKeys \cup Requests -> Providers]
    /\ DOMAIN BaseUrl = ProviderKeys
    /\ Priority \in [ProviderKeys -> Int]
    /\ MaxChunks \in Nat \ {0} /\ MaxRestarts \in Nat
    /\ \A k \in ProviderKeys : BaseUrl[k] # NoAdapter

VARIABLES
    stored,      \* provider keys that were created
    active,      \* those whose is_active is true
    adapter,     \* adapter[p]: base URL of the adapter registered for p
    phase,       \* phase[r]: where the handler of r is
    candidates,  \* candidates[r]: the keys r's query returned, in their order
    calls,       \* calls[r]: the upstream calls of r: the key sent and the URL it was sent to
    collected,   \* collected[r]: chunks kept for the usage
    sent,        \* sent[r]: chunks yielded towards the client
    logged,      \* logged[r]: the status of the usage log, "none" before
    restarts     \* restarts of the process so far

vars == <<stored, active, adapter, phase, candidates, calls, collected, sent, logged, restarts>>
request == <<phase, candidates, calls, collected, sent, logged>>

Init ==
    /\ stored = {}
    /\ active = {}
    /\ adapter = [p \in Providers |-> NoAdapter]
    /\ phase = [r \in Requests |-> "new"]
    /\ candidates = [r \in Requests |-> <<>>]
    /\ calls = [r \in Requests |-> <<>>]
    /\ collected = [r \in Requests |-> <<>>]
    /\ sent = [r \in Requests |-> <<>>]
    /\ logged = [r \in Requests |-> "none"]
    /\ restarts = 0

-----------------------------------------------------------------------------
(***************************************************************************)
(* Administrators.  A deleted key stays stored.                            *)
(***************************************************************************)
CreateProviderKey(k) ==
    /\ k \notin stored
    /\ stored' = stored \cup {k}
    /\ active' = active \cup {k}
    /\ UNCHANGED <<adapter, request, restarts>>

\* Mutant: the row itself is deleted.
RemoveProviderKey(k) ==
    /\ k \in active
    /\ stored' = stored \ {k}
    /\ active' = active \ {k}
    /\ UNCHANGED <<adapter, request, restarts>>

DeleteProviderKey(k) ==
    /\ k \in active
    /\ active' = active \ {k}
    /\ UNCHANGED <<stored, adapter, request, restarts>>

(***************************************************************************)
(* AdapterRegistry.  Only the first key of a provider registers it.        *)
(***************************************************************************)
Registered(p, k) == IF adapter[p] = NoAdapter THEN [adapter EXCEPT ![p] = BaseUrl[k]] ELSE adapter

(***************************************************************************)
(* A request.                                                              *)
(***************************************************************************)
\* Mutants: one of the two conditions of the query is dropped.
ActiveKeysOfAny(p) == active
StoredKeys(p) == {k \in stored : ProviderOf[k] = p}

ActiveKeys(p) == {k \in active : ProviderOf[k] = p}

\* The orders in which the query may return a set of keys: by priority, ties in any order.
ByPriority(keys) ==
    {order \in SetToSeqs(keys) : \A i, j \in DOMAIN order : i < j => Priority[order[i]] <= Priority[order[j]]}

\* The provider's active keys are read.  A chat registers their adapter.
Resolve(r) ==
    /\ phase[r] = "new"
    /\ \E order \in ByPriority(ActiveKeys(ProviderOf[r])) :
          /\ candidates' = [candidates EXCEPT ![r] = order]
          /\ adapter' = IF r \in Embeds \/ order = <<>>
                        THEN adapter ELSE Registered(ProviderOf[r], order[1])
    /\ phase' = [phase EXCEPT ![r] = "trying"]
    /\ UNCHANGED <<stored, active, calls, collected, sent, logged, restarts>>

\* Mutant: the loop over the keys is left after the first.
UntriedOnce(r) == calls[r] = <<>> /\ candidates[r] # <<>>

\* A chat goes through the keys it read; an embedding takes the first and no other.
Untried(r) == Len(calls[r]) < Len(candidates[r]) /\ (r \in Embeds => calls[r] = <<>>)
NextKey(r) == candidates[r][Len(calls[r]) + 1]

\* The next key is decrypted and sent to the provider's adapter.
Call(r) ==
    /\ phase[r] = "trying"
    /\ Untried(r)
    /\ adapter' = Registered(ProviderOf[r], NextKey(r))
    /\ calls' = [calls EXCEPT ![r] =
                   Append(@, [key |-> NextKey(r), url |-> adapter'[ProviderOf[r]]])]
    /\ phase' = [phase EXCEPT ![r] = "calling"]
    /\ UNCHANGED <<stored, active, candidates, collected, sent, logged, restarts>>

\* The key does not decrypt: the exception leaves the request.
DecryptFails(r) ==
    /\ phase[r] = "trying"
    /\ Untried(r)
    /\ adapter' = IF r \in Embeds THEN Registered(ProviderOf[r], NextKey(r)) ELSE adapter
    /\ phase' = [phase EXCEPT ![r] = "raised"]
    /\ UNCHANGED <<stored, active, candidates, calls, collected, sent, logged, restarts>>

\* A chunk of the current call is kept for the usage and yielded.
Relayed(r, body) ==
    LET chunk == [call |-> Len(calls[r]), body |-> body]
    IN  /\ collected' = [collected EXCEPT ![r] = Append(@, chunk)]
        /\ sent' = [sent EXCEPT ![r] = Append(@, chunk)]

\* Upstream answers.  Without streaming, the answer is one body.
Answer(r) ==
    /\ phase[r] = "calling"
    /\ Len(collected[r]) < MaxChunks
    /\ Relayed(r, "data")
    /\ phase' = [phase EXCEPT ![r] = IF r \in Streams THEN "calling" ELSE "closing"]
    /\ UNCHANGED <<stored, active, adapter, candidates, calls, logged, restarts>>

\* Upstream answers a chat with an HTTP error: the adapter yields the body and returns.
HttpError(r) ==
    /\ phase[r] = "calling"
    /\ r \notin Embeds
    /\ collected[r] = <<>>
    /\ Relayed(r, "error")
    /\ phase' = [phase EXCEPT ![r] = "closing"]
    /\ UNCHANGED <<stored, active, adapter, candidates, calls, logged, restarts>>

\* Mutant: what a failed call sent stays collected.
KeptCollected(r) == collected[r]

\* The call raises: the connection fails or times out, in a stream also halfway, or an
\* embedding is answered with an HTTP error.  What it sent is dropped, the next key is tried.
KeptOfFailed(r) == <<>>

\* Mutant: nothing ends the wait for the first byte.
FailHalfway(r) ==
    /\ phase[r] = "calling"
    /\ collected[r] # <<>>
    /\ collected' = [collected EXCEPT ![r] = KeptOfFailed(r)]
    /\ phase' = [phase EXCEPT ![r] = "trying"]
    /\ UNCHANGED <<stored, active, adapter, candidates, calls, sent, logged, restarts>>

Fail(r) ==
    /\ phase[r] = "calling"
    /\ collected' = [collected EXCEPT ![r] = KeptOfFailed(r)]
    /\ phase' = [phase EXCEPT ![r] = "trying"]
    /\ UNCHANGED <<stored, active, adapter, candidates, calls, sent, logged, restarts>>

\* The call is over, and with it the request.
End(r) ==
    /\ phase[r] = "closing" \/ (phase[r] = "calling" /\ r \in Streams)
    /\ logged' = [logged EXCEPT ![r] = "success"]
    /\ phase' = [phase EXCEPT ![r] = "ended"]
    /\ UNCHANGED <<stored, active, adapter, candidates, calls, collected, sent, restarts>>

\* No key is left.  An embedding that had none at all is refused before its hold.
RelayError == [call |-> 0, body |-> "error"]

Exhausted(r) ==
    /\ phase[r] = "trying"
    /\ ~Untried(r)
    /\ collected' = [collected EXCEPT ![r] = <<RelayError>>]
    /\ sent' = [sent EXCEPT ![r] = Append(@, RelayError)]
    /\ logged' = [logged EXCEPT ![r] = IF r \in Embeds /\ candidates[r] = <<>> THEN "none" ELSE "error"]
    /\ phase' = [phase EXCEPT ![r] = "ended"]
    /\ UNCHANGED <<stored, active, adapter, candidates, calls, restarts>>

\* The hold is declined before the first call: no such request reaches upstream.
Decline(r) ==
    /\ phase[r] = "trying"
    /\ calls[r] = <<>>
    /\ r \in Embeds => candidates[r] # <<>>
    /\ phase' = [phase EXCEPT ![r] = "declined"]
    /\ UNCHANGED <<stored, active, adapter, candidates, calls, collected, sent, logged, restarts>>

\* The client of a stream is gone: the generator is cancelled where it waits.
Abandon(r) ==
    /\ r \in Streams
    /\ phase[r] \in {"calling", "closing"}
    /\ phase' = [phase EXCEPT ![r] = "abandoned"]
    /\ UNCHANGED <<stored, active, adapter, candidates, calls, collected, sent, logged, restarts>>

\* The process is restarted: the registry is empty and the requests it served are lost.
Restart ==
    /\ restarts < MaxRestarts
    /\ restarts' = restarts + 1
    /\ adapter' = [p \in Providers |-> NoAdapter]
    /\ phase' = [r \in Requests |->
                   IF phase[r] \in {"trying", "calling", "closing"} THEN "lost" ELSE phase[r]]
    /\ UNCHANGED <<stored, active, candidates, calls, collected, sent, logged>>

Over == {"ended", "raised", "declined", "abandoned", "lost"}

\* Every request is over: nothing more need happen.
Finished ==
    /\ \A r \in Requests : phase[r] \in Over
    /\ UNCHANGED vars

Outcome(r) == DecryptFails(r) \/ Decline(r) \/ Answer(r) \/ HttpError(r) \/ Abandon(r)
Progress(r) == Call(r) \/ Fail(r) \/ End(r) \/ Exhausted(r)

Next ==
    \/ \E k \in ProviderKeys : CreateProviderKey(k) \/ DeleteProviderKey(k)
    \/ \E r \in Requests : Resolve(r) \/ Outcome(r) \/ Progress(r)
    \/ Restart
    \/ Finished

Spec == Init /\ [][Next]_vars

\* A request that is not streamed is driven on by the event loop once it was taken up, and
\* a call that hears nothing from upstream times out; upstream itself owes nobody an answer.
\* Nothing is assumed of a stream: it waits at each chunk for a client that may never read.
Unstreamed == Requests \ Streams

FairSpec == Spec /\ \A r \in Unstreamed : WF_vars(Progress(r))

-----------------------------------------------------------------------------
(***************************************************************************)
(* Properties.                                                             *)
(***************************************************************************)
Chunks == [call : Nat, body : {"data", "error"}]

\* Every variable has its type; a request tries keys that are stored.
TypeOK ==
    /\ active \subseteq stored /\ stored \subseteq ProviderKeys
    /\ adapter \in [Providers -> {BaseUrl[k] : k \in ProviderKeys} \cup {NoAdapter}]
    /\ phase \in [Requests -> {"new", "trying", "calling", "closing"} \cup Over]
    /\ candidates \in [Requests -> Seq(stored)]
    /\ calls \in [Requests -> Seq([key : stored, url : {BaseUrl[k] : k \in ProviderKeys}])]
    /\ collected \in [Requests -> Seq(Chunks)]
    /\ sent \in [Requests -> Seq(Chunks)]
    /\ logged \in [Requests -> {"none", "success", "error"}]
    /\ restarts \in 0..MaxRestarts

\* The usage of a successful request is read from the whole answer of the call that
\* delivered it and from nothing else, whatever failed before, also halfway; the client
\* of a request that is not streamed is sent that answer alone.  proxy_service.py:173-203.
UsageOfDeliveredCall ==
    \A r \in Requests : logged[r] = "success" =>
        LET before == Len(sent[r]) - Len(collected[r])
        IN  /\ \A i \in DOMAIN sent[r] : sent[r][i].call = Len(calls[r]) <=> i > before
            /\ collected[r] = SubSeq(sent[r], before + 1, Len(sent[r]))
            /\ r \notin Streams => before = 0

\* A chat is logged as failed only when every key it read was called, once each and in the
\* order of their priority, and none answered to the end.  proxy_service.py:158-195.  An
\* embedding is when the first one failed, whichever others it read: see FailsOver.
\* embeddings.py:108-145.
ErrorMeansAllFailed ==
    \A r \in Requests : logged[r] = "error" =>
        /\ {calls[r][i].key : i \in DOMAIN calls[r]} =
              {candidates[r][i] : i \in IF r \in Embeds THEN {1} ELSE DOMAIN candidates[r]}
        /\ \A i, j \in DOMAIN calls[r] : i < j =>
              /\ calls[r][i].key # calls[r][j].key
              /\ Priority[calls[r][i].key] <= Priority[calls[r][j].key]
        /\ collected[r] = <<RelayError>>

\* A provider's secret goes to a URL that was stored for that provider, whichever key
\* registered the adapter, before or after a restart.  registry.py:26-28.
SentToOwnProvider ==
    \A r \in Requests : \A i \in DOMAIN calls[r] :
        LET p == ProviderOf[r]
        IN  /\ ProviderOf[calls[r][i].key] = p
            /\ \E k \in stored : ProviderOf[k] = p /\ calls[r][i].url = BaseUrl[k]

\* A key deleted before a request begins is never sent by it; one deleted later still may
\* be.  admin_service.py:98-104 against proxy_service.py:95-101.
DeletedKeyIsNotSent ==
    \A r \in Requests, k \in ProviderKeys :
        []((phase[r] = "new" /\ k \in stored \ active)
             => [](\A i \in DOMAIN calls[r] : calls[r][i].key # k))

\* A request that is not streamed and was taken up comes to an end, however its calls fail.
RequestsEnd == \A r \in Unstreamed : phase[r] = "trying" ~> phase[r] \in Over

\* README.md:40, "same provider, multiple keys, priority-based failover": a request whose
\* outcome is an error has called every active key of its provider that it read.
FailsOver ==
    \A r \in Requests :
        phase[r] = "ended" /\ (\E i \in DOMAIN sent[r] : sent[r][i].body = "error")
            => Len(calls[r]) = Len(candidates[r])
=============================================================================
