---------------------------- MODULE RelayProofs ----------------------------
(***************************************************************************)
(* Theorems about Relay, for any number of provider keys, providers,       *)
(* requests and restarts, and streams of any length.                       *)
(*                                                                         *)
(* A request reads the keys once and goes by what it read.  The invariant  *)
(* says of every request what its calls, its chunks and its log owe to     *)
(* that list: Listed, Called and Relays.  Of the registry it says that an  *)
(* adapter's URL was stored for its provider, whichever key registered it. *)
(***************************************************************************)
EXTENDS Relay, SequenceTheorems, FiniteSetTheorems, TLAPS

Urls == {BaseUrl[k] : k \in ProviderKeys}
CallRecords == [key : ProviderKeys, url : Urls]
Phases == {"new", "trying", "calling", "closing"} \cup Over

Shape ==
    /\ active \subseteq stored /\ stored \subseteq ProviderKeys
    /\ adapter \in [Providers -> Urls \cup {NoAdapter}]
    /\ phase \in [Requests -> Phases]
    /\ candidates \in [Requests -> Seq(ProviderKeys)]
    /\ calls \in [Requests -> Seq(CallRecords)]
    /\ collected \in [Requests -> Seq(Chunks)]
    /\ sent \in [Requests -> Seq(Chunks)]
    /\ logged \in [Requests -> {"none", "success", "error"}]
    /\ restarts \in 0..MaxRestarts

\* The URL is one that was stored for the provider.
StoredFor(p, url) == \E k \in stored : ProviderOf[k] = p /\ url = BaseUrl[k]

AdapterInv == \A p \in Providers : adapter[p] # NoAdapter => StoredFor(p, adapter[p])

\* The keys a request read are its provider's, each once and in the order of priority.
Ordered(order, keys) ==
    /\ \A i \in 1 .. Len(order) : order[i] \in keys
    /\ \A i, j \in 1 .. Len(order) : i < j =>
          order[i] # order[j] /\ Priority[order[i]] <= Priority[order[j]]

Listed(r) == Ordered(candidates[r], {k \in stored : ProviderOf[k] = ProviderOf[r]})

\* Its calls were made with the keys it read, from the first on, an embedding's with no other.
Called(r) ==
    /\ Len(calls[r]) <= Len(candidates[r])
    /\ r \in Embeds => Len(calls[r]) <= 1
    /\ \A i \in 1 .. Len(calls[r]) :
          calls[r][i].key = candidates[r][i] /\ StoredFor(ProviderOf[r], calls[r][i].url)

\* What is collected is the last of what was sent, all of it from the current call, and
\* nothing before it is.
Delivered(kept, yielded, call) ==
    /\ Len(kept) <= Len(yielded)
    /\ \A i \in 1 .. Len(kept) :
          kept[i].call = call /\ kept[i] = yielded[Len(yielded) - Len(kept) + i]
    /\ \A i \in 1 .. Len(yielded) - Len(kept) : yielded[i].call < call

\* The chunks of a request at each place.  One that is not streamed sends its one body
\* when the call is over.
Relays(r) ==
    /\ phase[r] = "new" => candidates[r] = <<>> /\ calls[r] = <<>>
    /\ phase[r] \in {"new", "trying"} => collected[r] = <<>>
    /\ phase[r] \in {"new", "trying"} =>
          \A i \in 1 .. Len(sent[r]) : sent[r][i].call <= Len(calls[r])
    /\ phase[r] \in {"calling", "closing"} \/ logged[r] = "success" =>
          Delivered(collected[r], sent[r], Len(calls[r]))
    /\ r \notin Streams /\ phase[r] \in {"new", "trying", "calling"} =>
          collected[r] = <<>> /\ sent[r] = <<>>
    /\ r \notin Streams /\ (phase[r] = "closing" \/ logged[r] = "success") =>
          Len(collected[r]) = Len(sent[r])

\* A log is written at the end, and as failed when no key was left.
Logs(r) ==
    /\ phase[r] # "ended" => logged[r] = "none"
    /\ logged[r] = "error" =>
          /\ Len(calls[r]) = IF r \in Embeds THEN 1 ELSE Len(candidates[r])
          /\ collected[r] = <<RelayError>>

RequestInv(r) == Listed(r) /\ Called(r) /\ Relays(r) /\ Logs(r)

IInv ==
    /\ Shape
    /\ AdapterInv
    /\ \A r \in Requests : RequestInv(r)

-----------------------------------------------------------------------------
(***************************************************************************)
(* Orders of keys, adapters and chunks.                                    *)
(***************************************************************************)
\* What the query returns: the keys, each once, in the order of priority.
LEMMA RowsInOrder ==
    ASSUME NEW keys, keys \subseteq ProviderKeys, NEW order \in ByPriority(keys)
    PROVE  order \in Seq(ProviderKeys) /\ Ordered(order, keys)
  <1>1. IsFiniteSet(keys)
    BY RelayAssumption, FS_Subset
  <1> DEFINE n == Cardinality(keys)
  <1>2. n \in Nat
    BY <1>1, FS_CardinalityType
  <1> HIDE DEF n
  <1>3. /\ order \in [1..n -> keys]
        /\ \A i, j \in 1..n : i # j => order[i] # order[j]
        /\ \A i, j \in DOMAIN order : i < j => Priority[order[i]] <= Priority[order[j]]
    BY DEF ByPriority, SetToSeqs, n
  <1>4. order \in Seq(ProviderKeys) /\ Len(order) = n
    BY <1>2, <1>3
  <1> QED
    BY <1>2, <1>3, <1>4 DEF Ordered

\* Only a key of the provider registers its adapter, and once registered it stays.
LEMMA Registering ==
    ASSUME Shape, AdapterInv, NEW p \in Providers, NEW k \in stored, ProviderOf[k] = p,
           adapter' = Registered(p, k), stored' = stored
    PROVE  /\ adapter' \in [Providers -> Urls \cup {NoAdapter}]
           /\ AdapterInv'
           /\ adapter'[p] \in Urls /\ StoredFor(p, adapter'[p])
  <1>1. BaseUrl[k] \in Urls /\ StoredFor(p, BaseUrl[k])
    BY DEF Shape, Urls, StoredFor
  <1>2. CASE adapter[p] = NoAdapter
    <2>1. adapter' = [adapter EXCEPT ![p] = BaseUrl[k]]
      BY <1>2 DEF Registered
    <2>2. adapter' \in [Providers -> Urls \cup {NoAdapter}] /\ adapter'[p] = BaseUrl[k]
      BY <1>1, <2>1 DEF Shape
    <2>3. ASSUME NEW q \in Providers, adapter'[q] # NoAdapter PROVE StoredFor(q, adapter[q])'
      <3>1. q = p \/ adapter'[q] = adapter[q]
        BY <2>1 DEF Shape
      <3>2. CASE q = p
        BY <1>1, <2>2, <3>2 DEF StoredFor
      <3>3. CASE adapter'[q] = adapter[q]
        BY <2>3, <3>3 DEF AdapterInv, StoredFor
      <3> QED
        BY <3>1, <3>2, <3>3
    <2> QED
      BY <1>1, <2>2, <2>3 DEF AdapterInv
  <1>3. CASE adapter[p] # NoAdapter
    <2>1. adapter' = adapter
      BY <1>3 DEF Registered
    <2>2. StoredFor(p, adapter[p]) /\ adapter[p] \in Urls
      BY <1>3 DEF AdapterInv, Shape
    <2> QED
      BY <2>1, <2>2 DEF Shape, AdapterInv, StoredFor
  <1> QED
    BY <1>2, <1>3

\* A chunk that is collected and sent at the end of both leaves the one the tail of the
\* other.
LEMMA OneMoreChunk ==
    ASSUME NEW kept \in Seq(Chunks), NEW yielded \in Seq(Chunks), NEW call \in Nat,
           NEW chunk \in Chunks, chunk.call = call, Delivered(kept, yielded, call)
    PROVE  Delivered(Append(kept, chunk), Append(yielded, chunk), call)
  <1>1. /\ Len(Append(kept, chunk)) = Len(kept) + 1
        /\ \A i \in 1 .. Len(kept) : Append(kept, chunk)[i] = kept[i]
        /\ Append(kept, chunk)[Len(kept) + 1] = chunk
    BY AppendProperties
  <1>2. /\ Len(Append(yielded, chunk)) = Len(yielded) + 1
        /\ \A i \in 1 .. Len(yielded) : Append(yielded, chunk)[i] = yielded[i]
        /\ Append(yielded, chunk)[Len(yielded) + 1] = chunk
    BY AppendProperties
  <1> DEFINE k == Len(kept)
             n == Len(yielded)
             newKept == Append(kept, chunk)
             newYielded == Append(yielded, chunk)
  <1>3. k \in Nat /\ n \in Nat /\ k <= n
    BY DEF Delivered
  <1>4. ASSUME NEW i \in 1 .. k + 1
        PROVE  newKept[i].call = call /\ newKept[i] = newYielded[n - k + i]
    <2>1. CASE i = k + 1
      BY <1>1, <1>2, <1>3, <2>1
    <2>2. CASE i \in 1 .. k
      <3>1. n - k + i \in 1 .. n /\ kept[i] = yielded[n - k + i] /\ kept[i].call = call
        BY <1>3, <2>2 DEF Delivered
      <3> QED
        BY <1>1, <1>2, <2>2, <3>1
    <2> QED
      BY <1>3, <2>1, <2>2
  <1>5. \A i \in 1 .. n - k : newYielded[i].call < call
    BY <1>2, <1>3 DEF Delivered
  <1>6. Len(newKept) = k + 1 /\ Len(newYielded) = n + 1 /\ (n + 1) - (k + 1) = n - k
    BY <1>1, <1>2, <1>3
  <1> HIDE DEF newKept, newYielded, k, n
  <1>7. Delivered(newKept, newYielded, call)
    BY <1>3, <1>4, <1>5, <1>6 DEF Delivered
  <1> QED
    BY <1>7 DEF newKept, newYielded

-----------------------------------------------------------------------------
(***************************************************************************)
(* What a step of one request leaves of another.                           *)
(***************************************************************************)
Same(r) ==
    /\ phase'[r] = phase[r] /\ candidates'[r] = candidates[r] /\ calls'[r] = calls[r]
    /\ collected'[r] = collected[r] /\ sent'[r] = sent[r] /\ logged'[r] = logged[r]

LEMMA StoredForLasts ==
    ASSUME NEW p, NEW url, StoredFor(p, url), stored \subseteq stored'
    PROVE  StoredFor(p, url)'
  BY DEF StoredFor

LEMMA ListStays ==
    ASSUME NEW r \in Requests, Listed(r), candidates'[r] = candidates[r], stored \subseteq stored'
    PROVE  Listed(r)'
  BY DEF Listed, Ordered

LEMMA CallsStay ==
    ASSUME NEW r \in Requests, Called(r), calls'[r] = calls[r], candidates'[r] = candidates[r],
           stored \subseteq stored'
    PROVE  Called(r)'
  BY DEF Called, StoredFor

LEMMA Others ==
    ASSUME NEW r \in Requests, RequestInv(r), Same(r), stored \subseteq stored'
    PROVE  RequestInv(r)'
  <1>1. Listed(r)' /\ Called(r)'
    BY ListStays, CallsStay DEF RequestInv, Same
  <1>2. Relays(r)'
    BY DEF RequestInv, Same, Relays
  <1>3. Logs(r)'
    BY DEF RequestInv, Same, Logs
  <1> QED
    BY <1>1, <1>2, <1>3 DEF RequestInv

\* A step of one request keeps the invariant if it does so for this request.
LEMMA OneRequest ==
    ASSUME IInv, NEW r \in Requests, \A q \in Requests \ {r} : Same(q),
           UNCHANGED <<stored, active, restarts>>, Shape', AdapterInv', RequestInv(r)'
    PROVE  IInv'
  <1>1. ASSUME NEW q \in Requests PROVE RequestInv(q)'
    <2>1. CASE q = r
      BY <2>1
    <2>2. CASE q # r
      BY <2>2, Others DEF IInv
    <2> QED
      BY <2>1, <2>2
  <1> QED
    BY <1>1 DEF IInv

\* A step that only moves a request on and may write its log.
LEMMA MovesOn ==
    ASSUME IInv, NEW r \in Requests, NEW next \in Phases,
           phase' = [phase EXCEPT ![r] = next],
           UNCHANGED <<stored, active, restarts, candidates, calls, collected, sent>>,
           logged' \in [Requests -> {"none", "success", "error"}],
           \A q \in Requests \ {r} : logged'[q] = logged[q],
           adapter' \in [Providers -> Urls \cup {NoAdapter}], AdapterInv',
           Relays(r)', Logs(r)'
    PROVE  IInv'
  <1>1. Shape'
    BY DEF IInv, Shape
  <1>2. \A q \in Requests \ {r} : Same(q)
    BY DEF IInv, Shape, Same
  <1>3. Listed(r)' /\ Called(r)'
    BY ListStays, CallsStay DEF IInv, RequestInv
  <1> QED
    BY <1>1, <1>2, <1>3, OneRequest DEF RequestInv

-----------------------------------------------------------------------------
(***************************************************************************)
(* The invariant holds initially and every step keeps it.                  *)
(***************************************************************************)
LEMMA InitInv == Init => IInv
  <1> SUFFICES ASSUME Init PROVE IInv
    OBVIOUS
  <1>1. <<>> \in Seq(ProviderKeys) /\ <<>> \in Seq(CallRecords) /\ <<>> \in Seq(Chunks) /\ Len(<<>>) = 0
    OBVIOUS
  <1>2. Shape
    BY <1>1, RelayAssumption DEF Init, Shape, Phases
  <1>3. AdapterInv
    BY DEF Init, AdapterInv
  <1>4. ASSUME NEW r \in Requests PROVE RequestInv(r)
    <2>1. phase[r] = "new" /\ candidates[r] = <<>> /\ calls[r] = <<>> /\ collected[r] = <<>>
          /\ sent[r] = <<>> /\ logged[r] = "none"
      BY DEF Init
    <2> QED
      BY <1>1, <2>1 DEF RequestInv, Listed, Ordered, Called, Relays, Logs
  <1> QED
    BY <1>2, <1>3, <1>4 DEF IInv

\* Administrators add keys and deactivate them; no row goes away.
LEMMA AdminStep ==
    ASSUME IInv, NEW k \in ProviderKeys, CreateProviderKey(k) \/ DeleteProviderKey(k)
    PROVE  IInv'
  <1>1. /\ stored \subseteq stored' /\ active' \subseteq stored' /\ stored' \subseteq ProviderKeys
        /\ UNCHANGED <<adapter, request, restarts>>
    BY DEF IInv, Shape, CreateProviderKey, DeleteProviderKey
  <1>2. Shape'
    BY <1>1 DEF IInv, Shape, request
  <1>3. AdapterInv'
    BY <1>1 DEF IInv, AdapterInv, StoredFor
  <1>4. \A r \in Requests : Same(r)
    BY <1>1 DEF Same, request
  <1> QED
    BY <1>1, <1>2, <1>3, <1>4, Others DEF IInv

LEMMA ResolveStep == ASSUME IInv, NEW r \in Requests, Resolve(r) PROVE IInv'
  <1> DEFINE own == {k \in stored : ProviderOf[k] = ProviderOf[r]}
  <1>1. PICK order \in ByPriority(ActiveKeys(ProviderOf[r])) :
          /\ candidates' = [candidates EXCEPT ![r] = order]
          /\ adapter' = IF r \in Embeds \/ order = <<>>
                        THEN adapter ELSE Registered(ProviderOf[r], order[1])
    BY DEF Resolve
  <1>2. Shape /\ AdapterInv /\ RequestInv(r) /\ phase[r] = "new" /\ ProviderOf[r] \in Providers
    BY RelayAssumption DEF IInv, Resolve
  <1>3. ActiveKeys(ProviderOf[r]) \subseteq own /\ own \subseteq ProviderKeys
    BY <1>2 DEF Shape, ActiveKeys
  <1>4. order \in Seq(ProviderKeys) /\ Ordered(order, own)
    BY <1>1, <1>3, RowsInOrder DEF Ordered
  <1>5. order # <<>> => order[1] \in own
    BY <1>4 DEF Ordered
  <1>6. adapter' \in [Providers -> Urls \cup {NoAdapter}] /\ AdapterInv'
    <2>1. CASE r \in Embeds \/ order = <<>>
      BY <1>1, <1>2, <2>1 DEF Resolve, Shape, AdapterInv, StoredFor
    <2>2. CASE ~(r \in Embeds \/ order = <<>>)
      BY <1>1, <1>2, <1>5, <2>2, Registering DEF Resolve
    <2> QED
      BY <2>1, <2>2
  <1>7. Shape'
    BY <1>1, <1>2, <1>4, <1>6 DEF Resolve, Shape, Phases
  <1>8. \A q \in Requests \ {r} : Same(q)
    BY <1>1, <1>2 DEF Resolve, Shape, Same
  <1>9. RequestInv(r)'
    <2>1. candidates'[r] = order /\ phase'[r] = "trying" /\ calls'[r] = <<>> /\ stored' = stored
          /\ UNCHANGED <<calls, collected, sent, logged>>
      BY <1>1, <1>2 DEF Resolve, Shape, RequestInv, Relays
    <2>2. Listed(r)'
      BY <1>4, <2>1 DEF Listed, Ordered
    <2>3. Called(r)'
      BY <1>4, <2>1 DEF Called
    <2>4. Relays(r)' /\ Logs(r)'
      BY <1>2, <2>1 DEF RequestInv, Relays, Logs
    <2> QED
      BY <2>2, <2>3, <2>4 DEF RequestInv
  <1> QED
    BY <1>6, <1>7, <1>8, <1>9, OneRequest DEF Resolve

\* The next key of the list is the provider's.
LEMMA NextIsListed ==
    ASSUME IInv, NEW r \in Requests, Untried(r)
    PROVE  /\ Len(calls[r]) + 1 \in 1 .. Len(candidates[r])
           /\ NextKey(r) \in stored /\ NextKey(r) \in ProviderKeys
           /\ ProviderOf[NextKey(r)] = ProviderOf[r] /\ ProviderOf[r] \in Providers
  <1>1. Len(calls[r]) \in Nat /\ Len(candidates[r]) \in Nat
    BY DEF IInv, Shape
  <1>2. Len(calls[r]) + 1 \in 1 .. Len(candidates[r])
    BY <1>1 DEF Untried
  <1>3. NextKey(r) \in stored /\ ProviderOf[NextKey(r)] = ProviderOf[r]
    BY <1>2 DEF IInv, RequestInv, Listed, Ordered, NextKey
  <1> QED
    BY <1>2, <1>3, RelayAssumption DEF IInv, Shape

LEMMA CallStep == ASSUME IInv, NEW r \in Requests, Call(r) PROVE IInv'
  <1> DEFINE record == [key |-> NextKey(r), url |-> adapter'[ProviderOf[r]]]
  <1>1. /\ Shape /\ AdapterInv /\ RequestInv(r) /\ phase[r] = "trying" /\ Untried(r)
        /\ calls' = [calls EXCEPT ![r] = Append(@, record)]
        /\ adapter' = Registered(ProviderOf[r], NextKey(r))
        /\ phase' = [phase EXCEPT ![r] = "calling"]
        /\ UNCHANGED <<stored, active, candidates, collected, sent, logged, restarts>>
    BY DEF IInv, Call
  <1>2. /\ Len(calls[r]) + 1 \in 1 .. Len(candidates[r])
        /\ NextKey(r) \in stored /\ NextKey(r) \in ProviderKeys
        /\ ProviderOf[NextKey(r)] = ProviderOf[r] /\ ProviderOf[r] \in Providers
    BY <1>1, NextIsListed
  <1>3. /\ adapter' \in [Providers -> Urls \cup {NoAdapter}] /\ AdapterInv'
        /\ adapter'[ProviderOf[r]] \in Urls /\ StoredFor(ProviderOf[r], adapter'[ProviderOf[r]])
    BY <1>1, <1>2, Registering
  <1>4. record \in CallRecords /\ record.key = candidates[r][Len(calls[r]) + 1]
        /\ StoredFor(ProviderOf[r], record.url)
    BY <1>2, <1>3 DEF CallRecords, NextKey
  <1> HIDE DEF record
  <1>5. /\ Append(calls[r], record) \in Seq(CallRecords)
        /\ Len(Append(calls[r], record)) = Len(calls[r]) + 1
        /\ \A i \in 1 .. Len(calls[r]) : Append(calls[r], record)[i] = calls[r][i]
        /\ Append(calls[r], record)[Len(calls[r]) + 1] = record
    BY <1>1, <1>4, AppendProperties DEF Shape
  <1>6. calls'[r] = Append(calls[r], record) /\ phase'[r] = "calling"
    BY <1>1 DEF Shape
  <1>7. Shape'
    BY <1>1, <1>3, <1>5 DEF Shape, Phases
  <1>8. \A q \in Requests \ {r} : Same(q)
    BY <1>1 DEF Shape, Same
  <1>9. Len(calls[r]) \in Nat /\ Len(candidates[r]) \in Nat /\ sent[r] \in Seq(Chunks)
    BY <1>1 DEF Shape
  <1>10. Listed(r)'
    BY <1>1, ListStays DEF RequestInv
  <1>11. Called(r)'
    <2>1. \A i \in 1 .. Len(calls[r]) + 1 : i \in 1 .. Len(calls[r]) \/ i = Len(calls[r]) + 1
      BY <1>9
    <2>2. ASSUME NEW i \in 1 .. Len(calls[r]) + 1
          PROVE  calls'[r][i].key = candidates[r][i] /\ StoredFor(ProviderOf[r], calls'[r][i].url)
      BY <1>1, <1>4, <1>5, <1>6, <2>1 DEF RequestInv, Called
    <2>3. Len(calls'[r]) = Len(calls[r]) + 1 /\ candidates' = candidates /\ stored' = stored
      BY <1>1, <1>5, <1>6
    <2>4. r \in Embeds => Len(calls'[r]) <= 1
      <3>1. r \in Embeds => calls[r] = <<>>
        BY <1>1 DEF Untried
      <3> QED
        BY <3>1, <2>3
    <2> QED
      BY <1>2, <1>9, <2>2, <2>3, <2>4 DEF Called, StoredFor
  <1>12. Relays(r)'
    <2>1. /\ collected[r] = <<>> /\ \A i \in 1 .. Len(sent[r]) : sent[r][i].call <= Len(calls[r])
          /\ r \notin Streams => sent[r] = <<>>
      BY <1>1 DEF RequestInv, Relays
    <2>2. \A i \in 1 .. Len(sent[r]) : sent[r][i].call < Len(calls[r]) + 1
      <3>1. \A i \in 1 .. Len(sent[r]) : sent[r][i] \in Chunks
        BY <1>9, ElementOfSeq
      <3>2. \A i \in 1 .. Len(sent[r]) : sent[r][i].call \in Nat
        BY <3>1 DEF Chunks
      <3> QED
        BY <1>9, <2>1, <3>2
    <2>3. Delivered(<<>>, sent[r], Len(calls[r]) + 1)
      BY <1>9, <2>2 DEF Delivered
    <2>4. logged[r] = "none"
      BY <1>1 DEF RequestInv, Logs
    <2> QED
      BY <1>1, <1>5, <1>6, <2>1, <2>3, <2>4 DEF Relays
  <1>13. Logs(r)'
    BY <1>1, <1>6 DEF RequestInv, Logs
  <1> QED
    BY <1>1, <1>3, <1>7, <1>8, <1>10, <1>11, <1>12, <1>13, OneRequest DEF RequestInv

\* The exception of a key that does not decrypt ends the request.
LEMMA DecryptFailsStep == ASSUME IInv, NEW r \in Requests, DecryptFails(r) PROVE IInv'
  <1>1. /\ Shape /\ AdapterInv /\ RequestInv(r) /\ phase[r] = "trying" /\ Untried(r)
        /\ adapter' = IF r \in Embeds THEN Registered(ProviderOf[r], NextKey(r)) ELSE adapter
        /\ phase' = [phase EXCEPT ![r] = "raised"]
        /\ UNCHANGED <<stored, active, candidates, calls, collected, sent, logged, restarts>>
    BY DEF IInv, DecryptFails
  <1>2. adapter' \in [Providers -> Urls \cup {NoAdapter}] /\ AdapterInv'
    <2>1. CASE r \in Embeds
      BY <1>1, <2>1, NextIsListed, Registering
    <2>2. CASE r \notin Embeds
      BY <1>1, <2>2 DEF Shape, AdapterInv, StoredFor
    <2> QED
      BY <2>1, <2>2
  <1>3. phase'[r] = "raised" /\ "raised" \in Phases
    BY <1>1 DEF Shape, Phases, Over
  <1>4. Relays(r)' /\ Logs(r)'
    BY <1>1, <1>3 DEF RequestInv, Relays, Logs
  <1>5. logged' \in [Requests -> {"none", "success", "error"}]
    BY <1>1 DEF Shape
  <1> QED
    BY <1>1, <1>2, <1>3, <1>4, <1>5, MovesOn

\* A chunk of the current call is kept and sent.
LEMMA RelayedStep ==
    ASSUME IInv, NEW r \in Requests, phase[r] = "calling",
           NEW body \in {"data", "error"}, Relayed(r, body),
           NEW next \in {"calling", "closing"}, next = "calling" => r \in Streams,
           phase' = [phase EXCEPT ![r] = next],
           UNCHANGED <<stored, active, adapter, candidates, calls, logged, restarts>>
    PROVE  IInv'
  <1> DEFINE chunk == [call |-> Len(calls[r]), body |-> body]
  <1>1. /\ Shape /\ AdapterInv /\ RequestInv(r)
        /\ Len(calls[r]) \in Nat /\ collected[r] \in Seq(Chunks) /\ sent[r] \in Seq(Chunks)
    BY DEF IInv, Shape
  <1>2. chunk \in Chunks /\ chunk.call = Len(calls[r])
    BY <1>1 DEF Chunks
  <1>3. /\ collected' = [collected EXCEPT ![r] = Append(collected[r], chunk)]
        /\ sent' = [sent EXCEPT ![r] = Append(sent[r], chunk)]
    BY DEF Relayed
  <1> HIDE DEF chunk
  <1>4. Delivered(collected[r], sent[r], Len(calls[r]))
    BY <1>1 DEF RequestInv, Relays
  <1>5. /\ Append(collected[r], chunk) \in Seq(Chunks) /\ Append(sent[r], chunk) \in Seq(Chunks)
        /\ Len(Append(collected[r], chunk)) = Len(collected[r]) + 1
        /\ Len(Append(sent[r], chunk)) = Len(sent[r]) + 1
    BY <1>1, <1>2, AppendProperties
  <1>6. Delivered(Append(collected[r], chunk), Append(sent[r], chunk), Len(calls[r]))
    BY <1>1, <1>2, <1>4, OneMoreChunk
  <1>7. /\ collected'[r] = Append(collected[r], chunk) /\ sent'[r] = Append(sent[r], chunk)
        /\ phase'[r] = next
    BY <1>1, <1>3 DEF Shape
  <1>8. Shape'
    BY <1>1, <1>3, <1>5 DEF Shape, Phases
  <1>9. AdapterInv'
    BY <1>1 DEF AdapterInv, StoredFor
  <1>10. \A q \in Requests \ {r} : Same(q)
    BY <1>1, <1>3 DEF Shape, Same
  <1>11. Listed(r)' /\ Called(r)'
    BY <1>1, ListStays, CallsStay DEF RequestInv
  <1>12. r \notin Streams => Len(collected[r]) = 0 /\ Len(sent[r]) = 0
    BY <1>1 DEF RequestInv, Relays
  <1>13. logged[r] = "none"
    BY <1>1 DEF RequestInv, Logs
  <1>14. Relays(r)'
    BY <1>5, <1>6, <1>7, <1>12, <1>13 DEF Relays
  <1>15. Logs(r)'
    BY <1>7, <1>13 DEF Logs
  <1> QED
    BY <1>8, <1>9, <1>10, <1>11, <1>14, <1>15, OneRequest DEF RequestInv

LEMMA AnswerStep == ASSUME IInv, NEW r \in Requests, Answer(r) PROVE IInv'
  <1> DEFINE next == IF r \in Streams THEN "calling" ELSE "closing"
  <1>1. next \in {"calling", "closing"} /\ (next = "calling" => r \in Streams)
    OBVIOUS
  <1>2. phase' = [phase EXCEPT ![r] = next]
    BY DEF Answer
  <1> HIDE DEF next
  <1> QED
    BY <1>1, <1>2, RelayedStep DEF Answer

LEMMA HttpErrorStep == ASSUME IInv, NEW r \in Requests, HttpError(r) PROVE IInv'
  BY RelayedStep DEF HttpError

\* What a failed call sent is dropped; what remains is from earlier calls than the next.
LEMMA FailStep == ASSUME IInv, NEW r \in Requests, Fail(r) PROVE IInv'
  <1>1. /\ Shape /\ AdapterInv /\ RequestInv(r) /\ phase[r] = "calling"
        /\ collected' = [collected EXCEPT ![r] = <<>>]
        /\ phase' = [phase EXCEPT ![r] = "trying"]
        /\ UNCHANGED <<stored, active, adapter, candidates, calls, sent, logged, restarts>>
    BY DEF IInv, Fail, KeptOfFailed
  <1>2. collected'[r] = <<>> /\ phase'[r] = "trying"
    BY <1>1 DEF Shape
  <1>3. <<>> \in Seq(Chunks)
    OBVIOUS
  <1>4. Shape'
    BY <1>1, <1>3 DEF Shape, Phases
  <1>5. AdapterInv'
    BY <1>1 DEF AdapterInv, StoredFor
  <1>6. \A q \in Requests \ {r} : Same(q)
    BY <1>1 DEF Shape, Same
  <1>7. Listed(r)' /\ Called(r)'
    BY <1>1, ListStays, CallsStay DEF RequestInv
  <1>8. \A i \in 1 .. Len(sent[r]) : sent[r][i].call <= Len(calls[r])
    <2> DEFINE k == Len(collected[r])
               n == Len(sent[r])
    <2>1. k \in Nat /\ n \in Nat /\ Len(calls[r]) \in Nat
      BY <1>1 DEF Shape
    <2>2. /\ k <= n
          /\ \A i \in 1 .. k : sent[r][n - k + i].call = Len(calls[r])
          /\ \A i \in 1 .. n - k : sent[r][i].call < Len(calls[r])
      <3>1. Delivered(collected[r], sent[r], Len(calls[r]))
        BY <1>1 DEF RequestInv, Relays
      <3>2. ASSUME NEW i \in 1 .. k PROVE sent[r][n - k + i].call = Len(calls[r])
        <4>1. collected[r][i].call = Len(calls[r]) /\ collected[r][i] = sent[r][n - k + i]
          BY <3>1 DEF Delivered
        <4> QED
          BY <4>1
      <3>3. k <= n /\ \A i \in 1 .. n - k : sent[r][i].call < Len(calls[r])
        BY <3>1 DEF Delivered
      <3> QED
        BY <3>2, <3>3
    <2> SUFFICES ASSUME NEW i \in 1 .. n PROVE sent[r][i].call <= Len(calls[r])
      OBVIOUS
    <2>3. sent[r][i].call \in Nat
      <3>1. sent[r][i] \in Chunks
        BY <1>1, ElementOfSeq DEF Shape
      <3> QED
        BY <3>1 DEF Chunks
    <2> HIDE DEF k, n
    <2>4. CASE i \in 1 .. n - k
      BY <2>1, <2>2, <2>3, <2>4
    <2>5. CASE i \notin 1 .. n - k
      <3> DEFINE j == i - (n - k)
      <3>1. j \in 1 .. k /\ n - k + j = i
        BY <2>1, <2>2, <2>5
      <3> HIDE DEF j
      <3>2. sent[r][n - k + j].call = Len(calls[r])
        BY <2>2, <3>1
      <3> QED
        BY <2>1, <3>1, <3>2
    <2> QED
      BY <2>4, <2>5
  <1>9. Relays(r)'
    BY <1>1, <1>2, <1>8 DEF RequestInv, Relays, Logs
  <1>10. Logs(r)'
    BY <1>1, <1>2 DEF RequestInv, Logs
  <1> QED
    BY <1>1, <1>4, <1>5, <1>6, <1>7, <1>9, <1>10, OneRequest DEF RequestInv

\* A step that ends a request without a word on what it relayed.
LEMMA Leaves ==
    ASSUME IInv, NEW r \in Requests, NEW next \in {"declined", "abandoned"},
           phase[r] \in {"trying", "calling", "closing"}, phase' = [phase EXCEPT ![r] = next],
           UNCHANGED <<stored, active, adapter, candidates, calls, collected, sent, logged, restarts>>
    PROVE  IInv'
  <1>1. Shape /\ AdapterInv /\ RequestInv(r) /\ phase'[r] = next /\ next \in Phases
    BY DEF IInv, Shape, Phases, Over
  <1>2. Relays(r)' /\ Logs(r)'
    BY <1>1 DEF RequestInv, Relays, Logs
  <1>3. /\ adapter' \in [Providers -> Urls \cup {NoAdapter}] /\ AdapterInv'
        /\ logged' \in [Requests -> {"none", "success", "error"}]
    BY <1>1 DEF Shape, AdapterInv, StoredFor
  <1> QED
    BY <1>1, <1>2, <1>3, MovesOn

LEMMA EndStep == ASSUME IInv, NEW r \in Requests, End(r) PROVE IInv'
  <1>1. /\ Shape /\ AdapterInv /\ RequestInv(r)
        /\ phase[r] = "closing" \/ (phase[r] = "calling" /\ r \in Streams)
        /\ logged' = [logged EXCEPT ![r] = "success"]
        /\ phase' = [phase EXCEPT ![r] = "ended"]
        /\ UNCHANGED <<stored, active, adapter, candidates, calls, collected, sent, restarts>>
    BY DEF IInv, End
  <1>2. phase'[r] = "ended" /\ "ended" \in Phases /\ logged'[r] = "success"
        /\ logged' \in [Requests -> {"none", "success", "error"}]
        /\ \A q \in Requests \ {r} : logged'[q] = logged[q]
    BY <1>1 DEF Shape, Phases, Over
  <1>3. Relays(r)'
    BY <1>1, <1>2 DEF RequestInv, Relays
  <1>4. Logs(r)'
    BY <1>1, <1>2 DEF RequestInv, Logs
  <1>5. adapter' \in [Providers -> Urls \cup {NoAdapter}] /\ AdapterInv'
    BY <1>1 DEF Shape, AdapterInv, StoredFor
  <1> QED
    BY <1>1, <1>2, <1>3, <1>4, <1>5, MovesOn

\* No key is left: every one that the request tries was called.
LEMMA ExhaustedStep == ASSUME IInv, NEW r \in Requests, Exhausted(r) PROVE IInv'
  <1>1. /\ Shape /\ AdapterInv /\ RequestInv(r) /\ phase[r] = "trying" /\ ~Untried(r)
        /\ collected' = [collected EXCEPT ![r] = <<RelayError>>]
        /\ sent' = [sent EXCEPT ![r] = Append(sent[r], RelayError)]
        /\ phase' = [phase EXCEPT ![r] = "ended"]
        /\ UNCHANGED <<stored, active, adapter, candidates, calls, restarts>>
    BY DEF IInv, Exhausted
  <1> DEFINE status == IF r \in Embeds /\ candidates[r] = <<>> THEN "none" ELSE "error"
  <1>2. logged' = [logged EXCEPT ![r] = status] /\ status \in {"none", "error"}
    BY DEF Exhausted
  <1> HIDE DEF status
  <1>3. RelayError \in Chunks
    BY DEF RelayError, Chunks
  <1>4. <<RelayError>> \in Seq(Chunks) /\ Append(sent[r], RelayError) \in Seq(Chunks)
    BY <1>1, <1>3, AppendProperties DEF Shape
  <1>5. collected'[r] = <<RelayError>> /\ phase'[r] = "ended" /\ logged'[r] = status
    BY <1>1, <1>2 DEF Shape
  <1>6. Shape'
    BY <1>1, <1>2, <1>4 DEF Shape, Phases, Over
  <1>7. AdapterInv'
    BY <1>1 DEF AdapterInv, StoredFor
  <1>8. \A q \in Requests \ {r} : Same(q)
    BY <1>1, <1>2 DEF Shape, Same
  <1>9. Listed(r)' /\ Called(r)'
    BY <1>1, ListStays, CallsStay DEF RequestInv
  <1>10. status = "error" => Len(calls[r]) = IF r \in Embeds THEN 1 ELSE Len(candidates[r])
    <2>1. calls[r] \in Seq(CallRecords) /\ candidates[r] \in Seq(ProviderKeys) /\ Called(r)
      BY <1>1 DEF Shape, RequestInv
    <2>2. candidates[r] # <<>> => Len(candidates[r]) > 0
      BY <2>1
    <2>3. calls[r] # <<>> => Len(calls[r]) > 0
      BY <2>1
    <2>4. CASE r \in Embeds
      <3>1. status = "error" => candidates[r] # <<>>
        BY <2>4 DEF status
      <3>2. Len(calls[r]) < Len(candidates[r]) => calls[r] # <<>>
        BY <1>1, <2>4 DEF Untried
      <3>3. Len(calls[r]) \in Nat /\ Len(candidates[r]) \in Nat /\ Len(calls[r]) <= 1
        BY <2>1, <2>4 DEF Called
      <3>4. ASSUME status = "error" PROVE Len(calls[r]) = 1
        <4>1. Len(candidates[r]) > 0
          BY <2>2, <3>1, <3>4
        <4>2. Len(calls[r]) > 0
          <5>1. CASE calls[r] = <<>>
            BY <3>2, <3>3, <4>1, <5>1
          <5> QED
            BY <2>3, <5>1
        <4>3. \A a \in Nat : a <= 1 /\ a > 0 => a = 1
          OBVIOUS
        <4> QED
          BY <3>3, <4>2, <4>3
      <3> QED
        BY <2>4, <3>4
    <2>5. CASE r \notin Embeds
      BY <1>1, <2>1, <2>5 DEF Called, Untried
    <2> QED
      BY <2>4, <2>5
  <1>11. Relays(r)'
    BY <1>2, <1>5 DEF Relays
  <1>12. Logs(r)'
    BY <1>1, <1>5, <1>10 DEF Logs
  <1> QED
    BY <1>1, <1>6, <1>7, <1>8, <1>9, <1>11, <1>12, OneRequest DEF RequestInv

LEMMA RestartStep == ASSUME IInv, Restart PROVE IInv'
  <1>1. /\ Shape /\ restarts < MaxRestarts
        /\ restarts' = restarts + 1
        /\ adapter' = [p \in Providers |-> NoAdapter]
        /\ phase' = [r \in Requests |->
                       IF phase[r] \in {"trying", "calling", "closing"} THEN "lost" ELSE phase[r]]
        /\ UNCHANGED <<stored, active, candidates, calls, collected, sent, logged>>
    BY DEF IInv, Restart
  <1>2. restarts' \in 0..MaxRestarts
    BY <1>1, RelayAssumption DEF Shape
  <1>3. Shape'
    BY <1>1, <1>2 DEF Shape, Phases, Over
  <1>4. AdapterInv'
    BY <1>1 DEF AdapterInv
  <1>5. ASSUME NEW r \in Requests PROVE RequestInv(r)'
    <2>1. RequestInv(r) /\ stored \subseteq stored'
      BY <1>1 DEF IInv
    <2>2. Listed(r)' /\ Called(r)'
      BY <1>1, <2>1, ListStays, CallsStay DEF RequestInv
    <2>3. CASE phase[r] \in {"trying", "calling", "closing"}
      <3>1. phase'[r] = "lost" /\ logged[r] = "none"
        BY <1>1, <2>1, <2>3 DEF RequestInv, Logs
      <3> QED
        BY <1>1, <2>2, <3>1 DEF RequestInv, Relays, Logs
    <2>4. CASE phase[r] \notin {"trying", "calling", "closing"}
      <3>1. Same(r)
        BY <1>1, <2>4 DEF Same
      <3> QED
        BY <2>1, <3>1, Others
    <2> QED
      BY <2>3, <2>4
  <1> QED
    BY <1>3, <1>4, <1>5 DEF IInv

LEMMA NextInv == IInv /\ [Next]_vars => IInv'
  <1> SUFFICES ASSUME IInv, [Next]_vars PROVE IInv'
    OBVIOUS
  <1>1. ASSUME NEW r \in Requests, Resolve(r) \/ Outcome(r) \/ Progress(r) PROVE IInv'
    <2>1. CASE Decline(r) \/ Abandon(r)
      BY <2>1, Leaves DEF Decline, Abandon
    <2> QED
      BY <1>1, <2>1, ResolveStep, CallStep, DecryptFailsStep, AnswerStep, HttpErrorStep, FailStep, EndStep,
         ExhaustedStep DEF Outcome, Progress
  <1>2. CASE UNCHANGED vars
    <2>1. Shape'
      BY <1>2 DEF IInv, Shape, vars
    <2>2. AdapterInv'
      BY <1>2 DEF IInv, AdapterInv, StoredFor, vars
    <2>3. \A r \in Requests : Same(r)
      BY <1>2 DEF Same, vars
    <2>4. stored \subseteq stored'
      BY <1>2 DEF vars
    <2> QED
      BY <2>1, <2>2, <2>3, <2>4, Others DEF IInv
  <1> QED
    BY <1>1, <1>2, AdminStep, RestartStep DEF Next, Finished

-----------------------------------------------------------------------------
(***************************************************************************)
(* Theorems.                                                               *)
(***************************************************************************)
THEOREM Inductive == Spec => []IInv
  BY InitInv, NextInv, PTL DEF Spec

\* A sequence whose elements are in a smaller set.
LEMMA Narrowed ==
    ASSUME NEW S, NEW T, NEW s \in Seq(S), \A i \in 1 .. Len(s) : s[i] \in T
    PROVE  s \in Seq(T)
  BY LenProperties

\* Every reachable state has its type, and a request tries and calls stored keys only.
THEOREM TypeCorrect == Spec => []TypeOK
  <1>1. ASSUME IInv PROVE TypeOK
    <2>1. ASSUME NEW r \in Requests
          PROVE  candidates[r] \in Seq(stored) /\ calls[r] \in Seq([key : stored, url : Urls])
      <3>1. /\ candidates[r] \in Seq(ProviderKeys) /\ calls[r] \in Seq(CallRecords)
            /\ Listed(r) /\ Called(r)
        BY <1>1 DEF IInv, Shape, RequestInv
      <3>2. \A i \in 1 .. Len(candidates[r]) : candidates[r][i] \in stored
        BY <3>1 DEF Listed, Ordered
      <3>3. \A i \in 1 .. Len(calls[r]) : calls[r][i] \in [key : stored, url : Urls]
        <4>1. Len(calls[r]) <= Len(candidates[r]) /\ Len(calls[r]) \in Nat /\ Len(candidates[r]) \in Nat
          BY <3>1 DEF Called
        <4> SUFFICES ASSUME NEW i \in 1 .. Len(calls[r])
                     PROVE  calls[r][i] \in [key : stored, url : Urls]
          OBVIOUS
        <4>2. calls[r][i] \in CallRecords
          BY <3>1, ElementOfSeq
        <4>3. calls[r][i].key = candidates[r][i] /\ candidates[r][i] \in stored
          BY <3>1, <3>2, <4>1 DEF Called
        <4> QED
          BY <4>2, <4>3 DEF CallRecords
      <3> QED
        BY <3>1, <3>2, <3>3, Narrowed
    <2>2. candidates \in [Requests -> Seq(stored)]
          /\ calls \in [Requests -> Seq([key : stored, url : Urls])]
      BY <1>1, <2>1 DEF IInv, Shape
    <2> QED
      BY <1>1, <2>2 DEF IInv, Shape, TypeOK, Urls, Phases
  <1> QED
    BY <1>1, Inductive, PTL

\* No provider's secret is sent to a URL that was not stored for that provider, whichever
\* of its keys registered the adapter and however often the process is restarted.
THEOREM SecretsStayHome == Spec => []SentToOwnProvider
  <1>1. ASSUME IInv PROVE SentToOwnProvider
    <2> SUFFICES ASSUME NEW r \in Requests, NEW i \in DOMAIN calls[r]
                 PROVE  /\ ProviderOf[calls[r][i].key] = ProviderOf[r]
                        /\ StoredFor(ProviderOf[r], calls[r][i].url)
      BY DEF SentToOwnProvider, StoredFor
    <2>1. calls[r] \in Seq(CallRecords) /\ candidates[r] \in Seq(ProviderKeys) /\ Listed(r) /\ Called(r)
      BY <1>1 DEF IInv, Shape, RequestInv
    <2>2. i \in 1 .. Len(calls[r]) /\ i \in 1 .. Len(candidates[r])
      BY <2>1 DEF Called
    <2> QED
      BY <2>1, <2>2 DEF Listed, Ordered, Called
  <1> QED
    BY <1>1, Inductive, PTL

\* A chat is logged as failed only when each key it read was called, in order, an embedding
\* when the first one was.
THEOREM FailedMeansAllFailed == Spec => []ErrorMeansAllFailed
  <1>1. ASSUME IInv PROVE ErrorMeansAllFailed
    <2> SUFFICES ASSUME NEW r \in Requests, logged[r] = "error"
                 PROVE  /\ {calls[r][i].key : i \in DOMAIN calls[r]}
                             = {candidates[r][i] : i \in IF r \in Embeds THEN {1} ELSE DOMAIN candidates[r]}
                        /\ \A i, j \in DOMAIN calls[r] : i < j =>
                              /\ calls[r][i].key # calls[r][j].key
                              /\ Priority[calls[r][i].key] <= Priority[calls[r][j].key]
                        /\ collected[r] = <<RelayError>>
      BY DEF ErrorMeansAllFailed
    <2>1. /\ calls[r] \in Seq(CallRecords) /\ candidates[r] \in Seq(ProviderKeys)
          /\ Listed(r) /\ Called(r) /\ Logs(r)
      BY <1>1 DEF IInv, Shape, RequestInv
    <2> DEFINE n == IF r \in Embeds THEN 1 ELSE Len(candidates[r])
    <2>2. Len(calls[r]) = n /\ collected[r] = <<RelayError>>
      BY <2>1 DEF Logs
    <2> DEFINE tried == IF r \in Embeds THEN {1} ELSE DOMAIN candidates[r]
    <2>3. DOMAIN calls[r] = 1 .. n /\ tried = 1 .. n
      <3>1. 1 .. 1 = {1}
        OBVIOUS
      <3>2. DOMAIN calls[r] = 1 .. Len(calls[r]) /\ DOMAIN candidates[r] = 1 .. Len(candidates[r])
        BY <2>1
      <3>3. tried = 1 .. n
        BY <3>1, <3>2
      <3> QED
        BY <2>2, <3>2, <3>3
    <2>4. n <= Len(candidates[r]) /\ \A i \in 1 .. n : calls[r][i].key = candidates[r][i]
      BY <2>1, <2>2 DEF Called
    <2>5. \A i, j \in 1 .. n : i < j =>
            /\ calls[r][i].key # calls[r][j].key
            /\ Priority[calls[r][i].key] <= Priority[calls[r][j].key]
      <3>1. n \in Int /\ Len(candidates[r]) \in Nat
        BY <2>1
      <3>2. \A i \in 1 .. n : i \in 1 .. Len(candidates[r])
        BY <2>4, <3>1
      <3> QED
        BY <2>1, <2>4, <3>2 DEF Listed, Ordered
    <2> HIDE DEF n
    <2>6. {calls[r][i].key : i \in DOMAIN calls[r]} = {candidates[r][i] : i \in tried}
      <3> HIDE DEF tried
      <3>1. \A i \in DOMAIN calls[r] : i \in tried /\ calls[r][i].key = candidates[r][i]
        BY <2>3, <2>4
      <3>2. \A i \in tried : i \in DOMAIN calls[r] /\ candidates[r][i] = calls[r][i].key
        BY <2>3, <2>4
      <3> QED
        BY <3>1, <3>2
    <2> QED
      BY <2>2, <2>3, <2>5, <2>6
  <1> QED
    BY <1>1, Inductive, PTL

\* The usage of a successful request is read from the whole of its last call and from
\* nothing that an earlier one sent.
THEOREM UsageIsOfDelivered == Spec => []UsageOfDeliveredCall
  <1>1. ASSUME IInv PROVE UsageOfDeliveredCall
    <2> SUFFICES ASSUME NEW r \in Requests, logged[r] = "success"
                 PROVE  LET before == Len(sent[r]) - Len(collected[r])
                        IN  /\ \A i \in DOMAIN sent[r] : sent[r][i].call = Len(calls[r]) <=> i > before
                            /\ collected[r] = SubSeq(sent[r], before + 1, Len(sent[r]))
                            /\ r \notin Streams => before = 0
      BY DEF UsageOfDeliveredCall
    <2> DEFINE k == Len(collected[r])
               n == Len(sent[r])
               rest == SubSeq(sent[r], n - k + 1, n)
    <2>1. /\ sent[r] \in Seq(Chunks) /\ collected[r] \in Seq(Chunks) /\ Len(calls[r]) \in Nat
          /\ k \in Nat /\ n \in Nat /\ DOMAIN sent[r] = 1 .. n
          /\ Relays(r)
      BY <1>1 DEF IInv, Shape, RequestInv
    <2>2. /\ k <= n
          /\ \A i \in 1 .. k : collected[r][i].call = Len(calls[r]) /\ collected[r][i] = sent[r][n - k + i]
          /\ \A i \in 1 .. n - k : sent[r][i].call < Len(calls[r])
          /\ r \notin Streams => k = n
      BY <2>1 DEF Relays, Delivered
    <2> HIDE DEF k, n
    <2>3. ASSUME NEW i \in 1 .. n PROVE sent[r][i].call = Len(calls[r]) <=> i > n - k
      <3>1. CASE i \in 1 .. n - k
        BY <2>1, <2>2, <3>1
      <3>2. CASE i \notin 1 .. n - k
        <4> DEFINE j == i - (n - k)
        <4>1. j \in 1 .. k /\ n - k + j = i
          BY <2>1, <2>2, <3>2
        <4> HIDE DEF j
        <4>2. sent[r][n - k + j].call = Len(calls[r])
          BY <2>2, <4>1
        <4> QED
          BY <2>1, <2>2, <4>1, <4>2
      <3> QED
        BY <3>1, <3>2
    <2>4. collected[r] = rest
      <3>1. \A i \in n - k + 1 .. n : sent[r][i] \in Chunks
        <4>1. \A i \in 1 .. n : sent[r][i] \in Chunks
          BY <2>1, ElementOfSeq DEF n
        <4> QED
          BY <2>1, <2>2, <4>1
      <3>2. /\ rest \in Seq(Chunks)
            /\ Len(rest) = IF n - k + 1 <= n THEN n - (n - k + 1) + 1 ELSE 0
            /\ \A i \in 1 .. n - (n - k + 1) + 1 : rest[i] = sent[r][(n - k + 1) + i - 1]
        <4>1. n - k + 1 \in Int /\ n \in Int
          BY <2>1
        <4> QED
          BY <3>1, <4>1, SubSeqProperties
      <3> HIDE DEF rest
      <3>3. Len(rest) = k /\ \A i \in 1 .. k : rest[i] = sent[r][n - k + i]
        <4>1. n - (n - k + 1) + 1 = k
          BY <2>1
        <4>2. \A i \in 1 .. k : (n - k + 1) + i - 1 = n - k + i
          BY <2>1
        <4>3. Len(rest) = k
          BY <2>1, <2>2, <3>2
        <4> QED
          BY <3>2, <4>1, <4>2, <4>3
      <3>4. \A i \in 1 .. k : collected[r][i] = rest[i]
        BY <2>2, <3>3
      <3> QED
        BY <2>1, <3>2, <3>3, <3>4, SeqEqual DEF k
    <2>5. \A i \in DOMAIN sent[r] : sent[r][i].call = Len(calls[r]) <=> i > n - k
      BY <2>1, <2>3
    <2>6. r \notin Streams => n - k = 0
      BY <2>1, <2>2
    <2> QED
      BY <2>4, <2>5, <2>6 DEF k, n
  <1> QED
    BY <1>1, Inductive, PTL

\* The key was deleted, and the request has not begun or did not read it.
Unread(k, r) ==
    /\ k \in stored \ active
    /\ phase[r] = "new" \/ \A i \in 1 .. Len(candidates[r]) : candidates[r][i] # k

\* A request that begins reads active keys only, and a deleted key is never active again.
LEMMA UnreadStep ==
    ASSUME NEW k \in ProviderKeys, NEW r \in Requests, IInv, Unread(k, r), [Next]_vars
    PROVE  Unread(k, r)'
  <1>1. k \in stored' \ active'
    <2>1. CASE \E j \in ProviderKeys : CreateProviderKey(j) \/ DeleteProviderKey(j)
      BY <2>1 DEF CreateProviderKey, DeleteProviderKey, Unread
    <2>2. CASE ~ \E j \in ProviderKeys : CreateProviderKey(j) \/ DeleteProviderKey(j)
      <3>1. stored' = stored /\ active' = active
        BY <2>2 DEF Next, Resolve, Outcome, Progress, DecryptFails, Decline, Answer, HttpError, Abandon,
                    Call, Fail, End, Exhausted, Restart, Finished, vars
      <3> QED
        BY <3>1 DEF Unread
    <2> QED
      BY <2>1, <2>2
  <1>2. CASE Resolve(r)
    <2>1. PICK order \in ByPriority(ActiveKeys(ProviderOf[r])) :
            candidates' = [candidates EXCEPT ![r] = order]
      BY <1>2 DEF Resolve
    <2>2. ActiveKeys(ProviderOf[r]) \subseteq active /\ active \subseteq ProviderKeys
      BY DEF ActiveKeys, IInv, Shape
    <2>3. order \in Seq(ProviderKeys) /\ \A i \in 1 .. Len(order) : order[i] \in active
      BY <2>2, RowsInOrder DEF Ordered
    <2>4. \A i \in 1 .. Len(order) : order[i] # k
      BY <2>3 DEF Unread
    <2>5. candidates'[r] = order
      BY <2>1 DEF IInv, Shape
    <2> QED
      BY <1>1, <2>4, <2>5 DEF Unread
  <1>3. CASE ~Resolve(r)
    <2>1. candidates'[r] = candidates[r]
      <3>1. CASE \E q \in Requests : Resolve(q)
        <4>1. PICK q \in Requests : Resolve(q)
          BY <3>1
        <4>2. PICK keys : candidates' = [candidates EXCEPT ![q] = keys]
          BY <4>1 DEF Resolve
        <4> QED
          BY <1>3, <4>1, <4>2 DEF IInv, Shape
      <3>2. CASE ~ \E q \in Requests : Resolve(q)
        BY <3>2 DEF Next, CreateProviderKey, DeleteProviderKey, request, Outcome, Progress, DecryptFails,
                    Decline, Answer, HttpError, Abandon, Call, Fail, End, Exhausted, Restart, Finished, vars
      <3> QED
        BY <3>1, <3>2
    <2>2. phase[r] = "new" => phase'[r] = "new" \/ candidates[r] = <<>>
      BY DEF IInv, RequestInv, Relays
    <2>3. candidates[r] = <<>> => \A i \in 1 .. Len(candidates[r]) : candidates[r][i] # k
      OBVIOUS
    <2> QED
      BY <1>1, <2>1, <2>2, <2>3 DEF Unread
  <1> QED
    BY <1>2, <1>3

LEMMA OneDeletedKey ==
    ASSUME NEW r \in Requests, NEW k \in ProviderKeys
    PROVE  Spec => []((phase[r] = "new" /\ k \in stored \ active)
                        => [](\A i \in DOMAIN calls[r] : calls[r][i].key # k))
  <1>1. phase[r] = "new" /\ k \in stored \ active => Unread(k, r)
    BY DEF Unread
  <1>2. IInv /\ Unread(k, r) /\ [Next]_vars => Unread(k, r)'
    BY UnreadStep
  <1>3. IInv /\ Unread(k, r) => \A i \in DOMAIN calls[r] : calls[r][i].key # k
    <2> SUFFICES ASSUME IInv, Unread(k, r), NEW i \in DOMAIN calls[r] PROVE calls[r][i].key # k
      OBVIOUS
    <2>1. /\ calls[r] \in Seq(CallRecords) /\ candidates[r] \in Seq(ProviderKeys)
          /\ Called(r) /\ Relays(r)
      BY DEF IInv, Shape, RequestInv
    <2>2. i \in 1 .. Len(calls[r]) /\ i \in 1 .. Len(candidates[r])
      BY <2>1 DEF Called
    <2>3. phase[r] # "new"
      BY <2>1, <2>2 DEF Relays
    <2> QED
      BY <2>1, <2>2, <2>3 DEF Unread, Called
  <1> QED
    BY <1>1, <1>2, <1>3, Inductive, PTL DEF Spec

\* A provider key that was deleted is sent by no request that begins afterwards.
THEOREM DeletedKeysAreNotSent == Spec => DeletedKeyIsNotSent
  BY OneDeletedKey DEF DeletedKeyIsNotSent
=============================================================================
