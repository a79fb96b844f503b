------------------------------- MODULE Vault -------------------------------
(***************************************************************************)
(* The surrogate vault of the masking engine (masking/vault.py) with the   *)
(* manager that allocates surrogates in it (masking/consistency.py), used  *)
(* by concurrent gateway requests and by the policy dry run: each masks a  *)
(* sequence of findings, waits for its provider, and then either restores  *)
(* its answer from the reverse map of its scope or ends without restoring  *)
(* (a stream, a failed provider chain, a dry run).                         *)
(*                                                                         *)
(* Abstracted: encryption (an entry is readable exactly while it has not   *)
(* expired), the text of originals (a value stands for its salted hash and *)
(* its original), and the surrogate algorithm, which is the CONSTANT       *)
(* Generate: deterministic in the scope, the entity type and the value.    *)
(***************************************************************************)
EXTENDS Naturals

CONSTANTS
    Scopes,      \* vault namespaces: MaskingContext.scope_id
    Types,       \* entity types
    Values,      \* sensitive values
    Surrogates,  \* replacement texts
    Generate,    \* SurrogateGenerator(scope).generate(type, value)
    TTL,         \* lifetime of a mapping, in clock ticks
    MaxTime,     \* bound on the clock
    Requests,    \* request handlers that may be open at the same time
    NoEntry      \* the result of a dictionary lookup that finds nothing

ASSUME VaultAssumption ==
    /\ Generate \in [Scopes \X Types \X Values -> Surrogates]
    /\ TTL \in Nat \ {0}
    /\ MaxTime \in Nat

Entry == [original: Values, surrogate: Surrogates, expires: Nat]

ASSUME NoEntryAssumption == NoEntry \notin Entry /\ NoEntry \notin Surrogates

VARIABLES
    now,      \* the wall clock, datetime.now(UTC)
    forward,  \* EncryptedVault._forward, by scope and value
    reverse,  \* EncryptedVault._reverse, by scope and surrogate
    pc,       \* where each request handler stands
    scope,    \* the masking context of each request
    used,     \* the entries that stand in each request's masked payload
    view      \* the reverse map each request restored its answer with

vars == <<now, forward, reverse, pc, scope, used, view>>

Live(entry) == entry # NoEntry /\ entry.expires > now

-----------------------------------------------------------------------------
(* The vault's operations. *)

\* Mutant: an entry in its last tick already reads as missing.
GetTooEarly(k, v) ==
    LET e == forward[<<k, v>>] IN
    IF e # NoEntry /\ e.expires > now + 1 THEN e ELSE NoEntry

\* get: an expired entry reads as missing and stays where it is.
Get(k, v) == IF Live(forward[<<k, v>>]) THEN forward[<<k, v>>] ELSE NoEntry

\* Mutant: setdefault instead of assignment in the reverse direction.
PutKeepsReverse(k, entry) ==
    /\ forward' = [forward EXCEPT ![<<k, entry.original>>] = entry]
    /\ reverse' = [reverse EXCEPT ![<<k, entry.surrogate>>] =
                      IF @ = NoEntry THEN entry ELSE @]

\* put: both directions share one entry; the reverse slot of an equal
\* surrogate is overwritten.
Put(k, entry) ==
    /\ forward' = [forward EXCEPT ![<<k, entry.original>>] = entry]
    /\ reverse' = [reverse EXCEPT ![<<k, entry.surrogate>>] = entry]

\* Mutant: entries are purged one tick before they expire.
PurgeTooEarly ==
    /\ forward' = [i \in DOMAIN forward |->
                     IF Live(forward[i]) /\ forward[i].expires > now + 1
                     THEN forward[i] ELSE NoEntry]
    /\ UNCHANGED reverse

\* Mutant: the reverse slot of each expired forward entry is deleted, whoever
\* it belongs to by now.
PurgeBySurrogate ==
    /\ forward' = [i \in DOMAIN forward |->
                     IF Live(forward[i]) THEN forward[i] ELSE NoEntry]
    /\ reverse' = [i \in DOMAIN reverse |->
                     IF \E v \in Values :
                           LET e == forward[<<i[1], v>>] IN
                           e # NoEntry /\ ~Live(e) /\ e.surrogate = i[2]
                     THEN NoEntry ELSE reverse[i]]

\* purge_expired: of all scopes at once.
PurgeExpired ==
    /\ forward' = [i \in DOMAIN forward |->
                     IF Live(forward[i]) THEN forward[i] ELSE NoEntry]
    /\ reverse' = [i \in DOMAIN reverse |->
                     IF Live(reverse[i]) THEN reverse[i] ELSE NoEntry]

\* Mutant: the map of all scopes together.
ReverseMapOfAll(k) ==
    {<<i[2], reverse[i].original>> :
        i \in {x \in Scopes \X Surrogates : Live(reverse[x])}}

\* Mutant: expired entries that were not purged yet are handed out as well.
ReverseMapOfExpired(k) ==
    {<<s, reverse[<<k, s>>].original>> :
        s \in {x \in Surrogates : reverse[<<k, x>>] # NoEntry}}

\* reverse_map: the live part of the scope's reverse direction.
ReverseMap(k) ==
    {<<s, reverse[<<k, s>>].original>> :
        s \in {x \in Surrogates : Live(reverse[<<k, x>>])}}

-----------------------------------------------------------------------------
Init ==
    /\ now = 0
    /\ forward = [i \in Scopes \X Values |-> NoEntry]
    /\ reverse = [i \in Scopes \X Surrogates |-> NoEntry]
    /\ pc = [r \in Requests |-> "idle"]
    /\ scope \in [Requests -> Scopes]
    /\ used = [r \in Requests |-> {}]
    /\ view = [r \in Requests |-> {}]

\* No handler is inside the masking loop, which never awaits.
LoopFree == \A r \in Requests : pc[r] # "masking"

\* A request arrives with the scope its team and session header give it.
Begin(r, k) ==
    /\ pc[r] = "idle"
    /\ LoopFree
    /\ pc' = [pc EXCEPT ![r] = "masking"]
    /\ scope' = [scope EXCEPT ![r] = k]
    /\ view' = [view EXCEPT ![r] = {}]
    /\ UNCHANGED <<now, forward, reverse, used>>

\* surrogate_for, when the vault holds a mapping: whatever entity type the
\* value was found as, the stored surrogate is used and its expiry is kept.
ReuseSurrogate(r, v) ==
    /\ pc[r] = "masking"
    /\ Get(scope[r], v) # NoEntry
    /\ used' = [used EXCEPT ![r] = @ \cup {Get(scope[r], v)}]
    /\ UNCHANGED <<now, forward, reverse, pc, scope, view>>

\* Mutant: the TTL is taken off the time instead of added to it.
NewEntryInThePast(k, t, v) ==
    [original |-> v, surrogate |-> Generate[<<k, t, v>>], expires |-> now - TTL]

\* The entry that surrogate_for puts.
NewEntry(k, t, v) ==
    [original |-> v, surrogate |-> Generate[<<k, t, v>>], expires |-> now + TTL]

\* surrogate_for, when the vault holds none: generate one and put it.
AllocateSurrogate(r, t, v) ==
    /\ pc[r] = "masking"
    /\ Get(scope[r], v) = NoEntry
    /\ Put(scope[r], NewEntry(scope[r], t, v))
    /\ used' = [used EXCEPT ![r] = @ \cup {NewEntry(scope[r], t, v)}]
    /\ UNCHANGED <<now, pc, scope, view>>

\* The payload is masked; the handler awaits its provider.
Forward(r) ==
    /\ pc[r] = "masking"
    /\ pc' = [pc EXCEPT ![r] = "waiting"]
    /\ UNCHANGED <<now, forward, reverse, scope, used, view>>

\* A complete answer arrives and is restored.
Restore(r) ==
    /\ pc[r] = "waiting"
    /\ LoopFree
    /\ PurgeExpired
    /\ view' = [view EXCEPT ![r] = ReverseMap(scope[r])]
    /\ pc' = [pc EXCEPT ![r] = "idle"]
    /\ used' = [used EXCEPT ![r] = {}]
    /\ UNCHANGED <<now, scope>>

\* The request ends without a restore: a stream, whose events are relayed as
\* they are, a provider chain that failed, or a dry run, also one that a
\* finding with the block mode stops after some of its findings were masked.
End(r) ==
    /\ pc[r] \in {"masking", "waiting"}
    /\ (pc[r] = "waiting" => LoopFree)
    /\ pc' = [pc EXCEPT ![r] = "idle"]
    /\ used' = [used EXCEPT ![r] = {}]
    /\ UNCHANGED <<now, forward, reverse, scope, view>>

\* Time passes, also between two findings of one payload.
Tick ==
    /\ now < MaxTime
    /\ now' = now + 1
    /\ UNCHANGED <<forward, reverse, pc, scope, used, view>>

\* The process restarts: the vault lives in memory and open requests die.
Restart ==
    /\ forward' = [i \in Scopes \X Values |-> NoEntry]
    /\ reverse' = [i \in Scopes \X Surrogates |-> NoEntry]
    /\ pc' = [r \in Requests |-> "idle"]
    /\ used' = [r \in Requests |-> {}]
    /\ view' = [r \in Requests |-> {}]
    /\ UNCHANGED <<now, scope>>

RequestStep(r) ==
    \/ \E k \in Scopes : Begin(r, k)
    \/ \E v \in Values : ReuseSurrogate(r, v)
    \/ \E t \in Types, v \in Values : AllocateSurrogate(r, t, v)
    \/ Forward(r)
    \/ Restore(r)
    \/ End(r)

Next == (\E r \in Requests : RequestStep(r)) \/ Tick \/ Restart

Spec == Init /\ [][Next]_vars

-----------------------------------------------------------------------------
(* Properties. *)

\* Every variable has its type, and a dictionary entry stands under the
\* value and the surrogate it holds (vault.py, put).
TypeOK ==
    /\ now \in Nat
    /\ forward \in [Scopes \X Values -> Entry \cup {NoEntry}]
    /\ reverse \in [Scopes \X Surrogates -> Entry \cup {NoEntry}]
    /\ \A k \in Scopes, v \in Values :
          forward[<<k, v>>] # NoEntry => forward[<<k, v>>].original = v
    /\ \A k \in Scopes, s \in Surrogates :
          reverse[<<k, s>>] # NoEntry => reverse[<<k, s>>].surrogate = s
    /\ pc \in [Requests -> {"idle", "masking", "waiting"}]
    /\ scope \in [Requests -> Scopes]
    /\ used \in [Requests -> SUBSET Entry]
    /\ view \in [Requests -> SUBSET (Surrogates \X Values)]

\* What reverse_map would hand out is never out of date: a reverse entry that
\* is still live is the entry its original is masked with today, whatever
\* expired, was purged or was allocated again in between.
LiveReverseIsCurrent ==
    \A k \in Scopes, s \in Surrogates :
        Live(reverse[<<k, s>>]) =>
            forward[<<k, reverse[<<k, s>>].original>>] = reverse[<<k, s>>]

\* As long as get would reuse a surrogate, reverse_map knows that surrogate,
\* and for at least as long: no surrogate is sent out that is already
\* unknown, whichever other value overwrote its slot.
ReusedIsRestorable ==
    \A k \in Scopes, v \in Values :
        Live(forward[<<k, v>>]) =>
            LET back == reverse[<<k, forward[<<k, v>>].surrogate>>] IN
            back # NoEntry /\ back.expires >= forward[<<k, v>>].expires

\* Two open requests of one scope that masked the same value, in whatever
\* order and as whatever entity type, hold the same surrogate for it while
\* both their entries are live (consistency.py: "a stable per-scope
\* surrogate").
OneSurrogatePerValue ==
    \A q, r \in Requests :
        pc[q] # "idle" /\ pc[r] # "idle" /\ scope[q] = scope[r] =>
            \A d \in used[q], e \in used[r] :
                Live(d) /\ Live(e) /\ d.original = e.original => d = e

\* What makes the above inductive: entries hold a surrogate the generator
\* gives their value, none outlives a mapping made now, and the live entries
\* of an open request are still the current ones.
EntriesGenerated ==
    /\ \A k \in Scopes, v \in Values :
          LET e == forward[<<k, v>>] IN e # NoEntry =>
              /\ \E t \in Types : e.surrogate = Generate[<<k, t, v>>]
              /\ e.expires <= now + TTL
    /\ \A k \in Scopes, s \in Surrogates :
          LET e == reverse[<<k, s>>] IN e # NoEntry =>
              \E t \in Types : s = Generate[<<k, t, e.original>>]

UsedIsCurrent ==
    \A r \in Requests :
        /\ pc[r] = "idle" => used[r] = {}
        /\ \A e \in used[r] :
              Live(e) => forward[<<scope[r], e.original>>] = e

VaultInv ==
    /\ TypeOK
    /\ LiveReverseIsCurrent
    /\ ReusedIsRestorable
    /\ EntriesGenerated
    /\ UsedIsCurrent

\* A live mapping is never replaced, extended or dropped: only a restart of
\* the process takes it away before its time.
StableWhileLive ==
    [][ \/ Restart
        \/ \A i \in Scopes \X Values :
              Live(forward[i]) => forward'[i] = forward[i] ]_vars

\* The originals that could stand behind a surrogate in one scope.
Collide(k, v, w) ==
    \E t, u \in Types : Generate[<<k, t, v>>] = Generate[<<k, u, w>>]

\* For every generator: an answer shows for a surrogate of its own payload,
\* unless that has expired, some original, and another one than was masked
\* only if the generator gives both the same surrogate in this scope.
WrongOnlyByCollision ==
    [][ \A r \in Requests : Restore(r) =>
            \A e \in used[r] : Live(e) =>
                \E v \in Values :
                    /\ <<e.surrogate, v>> \in view'[r]
                    /\ v # e.original => Collide(scope[r], v, e.original) ]_vars

\* No two values of a scope can be given the same surrogate.
CollisionFree ==
    \A k \in Scopes, v, w \in Values : Collide(k, v, w) => v = w

\* The round trip: each surrogate of the request's own payload that has not
\* expired is restored to the original it replaced and to nothing else, and
\* nothing is restored that the scope does not map now.
RoundTrip ==
    [][ \A r \in Requests : Restore(r) =>
            /\ \A e \in used[r] : Live(e) =>
                  \A v \in Values :
                      <<e.surrogate, v>> \in view'[r] <=> v = e.original
            /\ \A p \in view'[r] :
                  /\ Live(forward[<<scope[r], p[2]>>])
                  /\ forward[<<scope[r], p[2]>>].surrogate = p[1] ]_vars

\* The vault as the abstract table of its live forward entries.
Table == INSTANCE SurrogateTable WITH
    NoSurrogate <- NoEntry,
    table <- [i \in Scopes \X Values |->
                IF Live(forward[i]) THEN forward[i].surrogate ELSE NoEntry]

\* With a generator that never collides, the two dictionaries and their
\* expiry dates implement the one-to-one table.
TableSpec == Table!Spec
=============================================================================
