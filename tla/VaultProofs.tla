---------------------------- MODULE VaultProofs ----------------------------
(***************************************************************************)
(* Proofs about module Vault, for every set of scopes, types, values and   *)
(* surrogates, every generator and every TTL.                              *)
(***************************************************************************)
EXTENDS Vault, TLAPS

USE VaultAssumption, NoEntryAssumption

-----------------------------------------------------------------------------
(* Facts about the steps. *)

\* An entry that is put has a surrogate of the generator's range and the
\* latest expiry there is.
LEMMA NewEntryFacts ==
    ASSUME NEW k \in Scopes, NEW t \in Types, NEW v \in Values, now \in Nat
    PROVE  /\ NewEntry(k, t, v) \in Entry
           /\ NewEntry(k, t, v) # NoEntry
           /\ NewEntry(k, t, v).original = v
           /\ NewEntry(k, t, v).surrogate = Generate[<<k, t, v>>]
           /\ NewEntry(k, t, v).expires = now + TTL
<1>1. Generate[<<k, t, v>>] \in Surrogates
    OBVIOUS
<1>2. now + TTL \in Nat
    OBVIOUS
<1>3. NewEntry(k, t, v) \in Entry
    BY <1>1, <1>2 DEF NewEntry, Entry
<1> QED BY <1>3 DEF NewEntry

\* The initial state satisfies the invariant.
LEMMA InitInv == Init => VaultInv
<1> SUFFICES ASSUME Init PROVE VaultInv
    OBVIOUS
<1>1. TypeOK
    BY DEF Init, TypeOK
<1>2. LiveReverseIsCurrent /\ ReusedIsRestorable
    BY DEF Init, LiveReverseIsCurrent, ReusedIsRestorable, Live
<1>3. EntriesGenerated /\ UsedIsCurrent
    BY DEF Init, EntriesGenerated, UsedIsCurrent
<1> QED BY <1>1, <1>2, <1>3 DEF VaultInv

\* Steps that touch neither dictionary nor the clock.
LEMMA QuietStep ==
    ASSUME VaultInv, TypeOK', UNCHANGED <<now, forward, reverse>>,
           UsedIsCurrent'
    PROVE  VaultInv'
BY ZenonT(30) DEF VaultInv, LiveReverseIsCurrent, ReusedIsRestorable, EntriesGenerated,
       Live

LEMMA BeginInv ==
    ASSUME VaultInv, NEW r \in Requests, NEW k \in Scopes, Begin(r, k)
    PROVE  VaultInv'
<1>1. TypeOK'
    BY DEF VaultInv, TypeOK, Begin
<1>2. UsedIsCurrent'
    BY DEF VaultInv, TypeOK, UsedIsCurrent, Begin, Live
<1> QED BY <1>1, <1>2, QuietStep DEF Begin

LEMMA ReuseInv ==
    ASSUME VaultInv, NEW r \in Requests, NEW v \in Values,
           ReuseSurrogate(r, v)
    PROVE  VaultInv'
<1> DEFINE e == forward[<<scope[r], v>>]
<1>1. /\ Get(scope[r], v) = e
      /\ e \in Entry
      /\ e.original = v
    BY DEF ReuseSurrogate, Get, VaultInv, TypeOK
<1>2. TypeOK'
    BY <1>1 DEF VaultInv, TypeOK, ReuseSurrogate
<1>3. UsedIsCurrent'
    BY <1>1 DEF VaultInv, TypeOK, UsedIsCurrent, ReuseSurrogate, Live
<1> QED BY <1>2, <1>3, QuietStep DEF ReuseSurrogate

\* The put of a new mapping: its slots were expired or a colliding value's.
LEMMA AllocateInv ==
    ASSUME VaultInv, NEW r \in Requests, NEW t \in Types, NEW v \in Values,
           AllocateSurrogate(r, t, v)
    PROVE  VaultInv'
<1> DEFINE k == scope[r]
           e == NewEntry(k, t, v)
<1>1. k \in Scopes /\ now \in Nat /\ now' = now
    BY DEF VaultInv, TypeOK, AllocateSurrogate
<1>2. /\ e \in Entry
      /\ e # NoEntry
      /\ e.original = v
      /\ e.surrogate = Generate[<<k, t, v>>]
      /\ e.surrogate \in Surrogates
      /\ e.expires = now + TTL
      /\ e.expires > now
    <2>1. Generate[<<k, t, v>>] \in Surrogates
        BY <1>1
    <2> QED BY <1>1, <2>1, NewEntryFacts
<1> HIDE DEF e, k
<1>3. ~Live(forward[<<k, v>>])
    <2>1. Get(k, v) = NoEntry
        BY DEF AllocateSurrogate, k
    <2> QED BY <2>1 DEF Get, Live
<1>4. /\ forward' = [forward EXCEPT ![<<k, v>>] = e]
      /\ reverse' = [reverse EXCEPT ![<<k, e.surrogate>>] = e]
    BY <1>2 DEF AllocateSurrogate, Put, e, k
<1>5. /\ \A kk \in Scopes, w \in Values :
            forward'[<<kk, w>>] =
                IF kk = k /\ w = v THEN e ELSE forward[<<kk, w>>]
      /\ \A kk \in Scopes, s \in Surrogates :
            reverse'[<<kk, s>>] =
                IF kk = k /\ s = e.surrogate THEN e ELSE reverse[<<kk, s>>]
    BY <1>1, <1>2, <1>4 DEF VaultInv, TypeOK
<1>6. TypeOK'
    <2>1. /\ forward' \in [Scopes \X Values -> Entry \cup {NoEntry}]
          /\ reverse' \in [Scopes \X Surrogates -> Entry \cup {NoEntry}]
        BY <1>2, <1>4 DEF VaultInv, TypeOK
    <2>2. used' \in [Requests -> SUBSET Entry]
        BY <1>2 DEF VaultInv, TypeOK, AllocateSurrogate, e, k
    <2>3. /\ \A kk \in Scopes, w \in Values :
                forward'[<<kk, w>>] # NoEntry => forward'[<<kk, w>>].original = w
          /\ \A kk \in Scopes, s \in Surrogates :
                reverse'[<<kk, s>>] # NoEntry => reverse'[<<kk, s>>].surrogate = s
        <3>1. /\ \A kk \in Scopes, w \in Values :
                    forward[<<kk, w>>] # NoEntry => forward[<<kk, w>>].original = w
              /\ \A kk \in Scopes, s \in Surrogates :
                    reverse[<<kk, s>>] # NoEntry => reverse[<<kk, s>>].surrogate = s
            BY DEF VaultInv, TypeOK
        <3>2. \A kk \in Scopes, w \in Values :
                forward'[<<kk, w>>] # NoEntry => forward'[<<kk, w>>].original = w
            BY <1>2, <1>5, <3>1
        <3>3. \A kk \in Scopes, s \in Surrogates :
                reverse'[<<kk, s>>] # NoEntry => reverse'[<<kk, s>>].surrogate = s
            BY <1>2, <1>5, <3>1, SMTT(20)
        <3> QED BY <3>2, <3>3
    <2>4. /\ now' \in Nat
          /\ pc' \in [Requests -> {"idle", "masking", "waiting"}]
          /\ scope' \in [Requests -> Scopes]
          /\ view' \in [Requests -> SUBSET (Surrogates \X Values)]
        BY DEF VaultInv, TypeOK, AllocateSurrogate
    <2> QED BY <2>1, <2>2, <2>3, <2>4 DEF TypeOK
<1>7. LiveReverseIsCurrent'
    <2> SUFFICES ASSUME NEW kk \in Scopes, NEW s \in Surrogates,
                        Live(reverse[<<kk, s>>])'
                 PROVE  forward'[<<kk, reverse'[<<kk, s>>].original>>]
                            = reverse'[<<kk, s>>]
        BY DEF LiveReverseIsCurrent
    <2>1. CASE kk = k /\ s = e.surrogate
        BY <2>1, <1>1, <1>2, <1>5
    <2>2. CASE ~(kk = k /\ s = e.surrogate)
        <3> DEFINE d == reverse[<<kk, s>>]
        <3>1. Live(d) /\ reverse'[<<kk, s>>] = d
            BY <2>2, <1>1, <1>5 DEF Live
        <3>2. d.original \in Values /\ forward[<<kk, d.original>>] = d
            BY <3>1 DEF VaultInv, TypeOK, LiveReverseIsCurrent, Live, Entry
        <3>3. ~(kk = k /\ d.original = v)
            BY <3>1, <3>2, <1>3
        <3> QED BY <3>1, <3>2, <3>3, <1>5
    <2> QED BY <2>1, <2>2
<1>8. ReusedIsRestorable'
    <2> SUFFICES ASSUME NEW kk \in Scopes, NEW w \in Values,
                        Live(forward[<<kk, w>>])'
                 PROVE  LET s == forward'[<<kk, w>>].surrogate IN
                        /\ reverse'[<<kk, s>>] # NoEntry
                        /\ reverse'[<<kk, s>>].expires
                                >= forward'[<<kk, w>>].expires
        BY DEF ReusedIsRestorable
    <2>1. CASE kk = k /\ w = v
        BY <2>1, <1>1, <1>2, <1>5
    <2>2. CASE ~(kk = k /\ w = v)
        <3> DEFINE f == forward[<<kk, w>>]
        <3>1. Live(f) /\ forward'[<<kk, w>>] = f
            BY <2>2, <1>1, <1>5 DEF Live
        <3>2. /\ f \in Entry
              /\ f.surrogate \in Surrogates
              /\ f.expires \in Nat
              /\ f.expires <= now + TTL
              /\ reverse[<<kk, f.surrogate>>] # NoEntry
              /\ reverse[<<kk, f.surrogate>>].expires >= f.expires
            BY <3>1 DEF VaultInv, TypeOK, ReusedIsRestorable,
                        EntriesGenerated, Live, Entry
        <3> QED BY <3>1, <3>2, <1>1, <1>2, <1>5
    <2> QED BY <2>1, <2>2
<1>9. EntriesGenerated'
    <2>1. ASSUME NEW kk \in Scopes, NEW w \in Values,
                 forward'[<<kk, w>>] # NoEntry
          PROVE  /\ \E u \in Types :
                       forward'[<<kk, w>>].surrogate = Generate[<<kk, u, w>>]
                 /\ forward'[<<kk, w>>].expires <= now' + TTL
        <3>1. CASE kk = k /\ w = v
            BY <3>1, <1>1, <1>2, <1>5
        <3>2. CASE ~(kk = k /\ w = v)
            <4>1. forward'[<<kk, w>>] = forward[<<kk, w>>]
                BY <3>2, <1>5
            <4> QED BY <4>1, <2>1, <1>1 DEF VaultInv, EntriesGenerated
        <3> QED BY <3>1, <3>2
    <2>2. ASSUME NEW kk \in Scopes, NEW s \in Surrogates,
                 reverse'[<<kk, s>>] # NoEntry
          PROVE  \E u \in Types :
                    s = Generate[<<kk, u, reverse'[<<kk, s>>].original>>]
        <3>1. CASE kk = k /\ s = e.surrogate
            BY <3>1, <1>2, <1>5
        <3>2. CASE ~(kk = k /\ s = e.surrogate)
            <4>1. reverse'[<<kk, s>>] = reverse[<<kk, s>>]
                BY <3>2, <1>5
            <4> QED BY <4>1, <2>2, SMTT(20) DEF VaultInv, EntriesGenerated
        <3> QED BY <3>1, <3>2
    <2> QED BY <2>1, <2>2 DEF EntriesGenerated
<1>10. UsedIsCurrent'
    <2> SUFFICES ASSUME NEW q \in Requests
                 PROVE  /\ pc'[q] = "idle" => used'[q] = {}
                        /\ \A d \in used'[q] : Live(d)' =>
                              forward'[<<scope'[q], d.original>>] = d
        BY DEF UsedIsCurrent
    <2>1. /\ pc' = pc /\ scope' = scope
          /\ used'[q] = IF q = r THEN used[q] \cup {e} ELSE used[q]
          /\ pc[r] # "idle"
        BY DEF VaultInv, TypeOK, AllocateSurrogate, e, k
    <2>2. ASSUME NEW d \in used'[q], Live(d)'
          PROVE  forward'[<<scope'[q], d.original>>] = d
        <3>1. CASE d \in used[q]
            <4>1. d \in Entry /\ scope[q] \in Scopes /\ Live(d)
                BY <1>1, <2>2, <3>1 DEF VaultInv, TypeOK, Live
            <4>2. forward[<<scope[q], d.original>>] = d
                BY <3>1, <4>1 DEF VaultInv, UsedIsCurrent
            <4>3. ~(scope[q] = k /\ d.original = v)
                BY <4>1, <4>2, <1>3
            <4> QED BY <4>1, <4>2, <4>3, <2>1, <1>5 DEF Entry
        <3>2. CASE q = r /\ d = e
            BY <3>2, <2>1, <1>1, <1>2, <1>5 DEF k
        <3> QED BY <2>1, <2>2, <3>1, <3>2
    <2> QED BY <2>1, <2>2 DEF VaultInv, UsedIsCurrent
<1> QED BY <1>6, <1>7, <1>8, <1>9, <1>10 DEF VaultInv

LEMMA ForwardInv ==
    ASSUME VaultInv, NEW r \in Requests, Forward(r)
    PROVE  VaultInv'
<1>1. TypeOK'
    BY DEF VaultInv, TypeOK, Forward
<1>2. UsedIsCurrent'
    BY DEF VaultInv, TypeOK, UsedIsCurrent, Forward, Live
<1> QED BY <1>1, <1>2, QuietStep DEF Forward

LEMMA EndInv ==
    ASSUME VaultInv, NEW r \in Requests, End(r)
    PROVE  VaultInv'
<1>1. TypeOK'
    BY DEF VaultInv, TypeOK, End
<1>2. UsedIsCurrent'
    BY DEF VaultInv, TypeOK, UsedIsCurrent, End, Live
<1> QED BY <1>1, <1>2, QuietStep DEF End

\* A purge keeps exactly the live entries of both directions.
LEMMA PurgeFacts ==
    ASSUME TypeOK, PurgeExpired
    PROVE  /\ \A k \in Scopes, v \in Values :
                 forward'[<<k, v>>] =
                    IF Live(forward[<<k, v>>]) THEN forward[<<k, v>>]
                                               ELSE NoEntry
           /\ \A k \in Scopes, s \in Surrogates :
                 reverse'[<<k, s>>] =
                    IF Live(reverse[<<k, s>>]) THEN reverse[<<k, s>>]
                                               ELSE NoEntry
           /\ forward' \in [Scopes \X Values -> Entry \cup {NoEntry}]
           /\ reverse' \in [Scopes \X Surrogates -> Entry \cup {NoEntry}]
BY DEF TypeOK, PurgeExpired

LEMMA RestoreInv ==
    ASSUME VaultInv, NEW r \in Requests, Restore(r)
    PROVE  VaultInv'
<1>1. TypeOK /\ now' = now /\ now \in Nat /\ PurgeExpired
    BY DEF VaultInv, TypeOK, Restore
<1>2. TypeOK'
    <2>1. ReverseMap(scope[r]) \in SUBSET (Surrogates \X Values)
        <3> SUFFICES ASSUME NEW p \in ReverseMap(scope[r])
                     PROVE  p \in Surrogates \X Values
            OBVIOUS
        <3>1. PICK s \in Surrogates :
                  /\ Live(reverse[<<scope[r], s>>])
                  /\ p = <<s, reverse[<<scope[r], s>>].original>>
            BY DEF ReverseMap
        <3>2. reverse[<<scope[r], s>>].original \in Values
            BY <1>1, <3>1 DEF TypeOK, Live, Entry
        <3> QED BY <3>1, <3>2
    <2> QED BY <1>1, <2>1, PurgeFacts DEF TypeOK, Restore
<1>3. LiveReverseIsCurrent'
    BY <1>1, PurgeFacts
    DEF VaultInv, TypeOK, LiveReverseIsCurrent, Live, Entry
<1>4. ReusedIsRestorable'
    BY <1>1, PurgeFacts
    DEF VaultInv, TypeOK, ReusedIsRestorable, Live, Entry
<1>5. EntriesGenerated'
    <2>1. ASSUME NEW k \in Scopes, NEW v \in Values,
                 forward'[<<k, v>>] # NoEntry
          PROVE  forward'[<<k, v>>] = forward[<<k, v>>]
        BY <1>1, <2>1, PurgeFacts
    <2>2. ASSUME NEW k \in Scopes, NEW s \in Surrogates,
                 reverse'[<<k, s>>] # NoEntry
          PROVE  reverse'[<<k, s>>] = reverse[<<k, s>>]
        BY <1>1, <2>2, PurgeFacts
    <2>3. ASSUME NEW k \in Scopes, NEW v \in Values,
                 forward'[<<k, v>>] # NoEntry
          PROVE  /\ \E t \in Types :
                       forward'[<<k, v>>].surrogate = Generate[<<k, t, v>>]
                 /\ forward'[<<k, v>>].expires <= now' + TTL
        BY <1>1, <2>1, <2>3 DEF VaultInv, EntriesGenerated
    <2>4. ASSUME NEW k \in Scopes, NEW s \in Surrogates,
                 reverse'[<<k, s>>] # NoEntry
          PROVE  \E t \in Types :
                    s = Generate[<<k, t, reverse'[<<k, s>>].original>>]
        <3>1. reverse'[<<k, s>>] = reverse[<<k, s>>]
            BY <2>2, <2>4
        <3> QED BY <2>4, <3>1 DEF VaultInv, EntriesGenerated
    <2> QED BY <2>3, <2>4 DEF EntriesGenerated
<1>6. UsedIsCurrent'
    <2>1. \A q \in Requests : /\ used'[q] \subseteq used[q]
                              /\ pc'[q] = "idle" => used'[q] = {}
                              /\ scope'[q] = scope[q]
        BY DEF VaultInv, TypeOK, UsedIsCurrent, Restore
    <2> QED
        BY <1>1, <2>1, PurgeFacts
        DEF VaultInv, TypeOK, UsedIsCurrent, Live, Entry
<1> QED BY <1>2, <1>3, <1>4, <1>5, <1>6 DEF VaultInv

LEMMA TickInv == ASSUME VaultInv, Tick PROVE VaultInv'
<1>1. /\ now \in Nat /\ now' = now + 1
      /\ UNCHANGED <<forward, reverse, pc, scope, used, view>>
    BY DEF VaultInv, TypeOK, Tick
<1>2. TypeOK'
    BY <1>1 DEF VaultInv, TypeOK
<1>3. LiveReverseIsCurrent'
    BY <1>1 DEF VaultInv, TypeOK, LiveReverseIsCurrent, Live, Entry
<1>4. ReusedIsRestorable'
    BY <1>1 DEF VaultInv, TypeOK, ReusedIsRestorable, Live, Entry
<1>5. EntriesGenerated'
    <2>1. ASSUME NEW k \in Scopes, NEW v \in Values,
                 forward[<<k, v>>] # NoEntry
          PROVE  forward[<<k, v>>].expires <= now' + TTL
        <3>1. forward[<<k, v>>] \in Entry
            BY <2>1 DEF VaultInv, TypeOK
        <3>2. forward[<<k, v>>].expires \in Nat
            BY <3>1 DEF Entry
        <3> QED BY <1>1, <2>1, <3>2 DEF VaultInv, EntriesGenerated
    <2> QED BY <1>1, <2>1 DEF VaultInv, EntriesGenerated
<1>6. UsedIsCurrent'
    BY <1>1 DEF VaultInv, TypeOK, UsedIsCurrent, Live, Entry
<1> QED BY <1>2, <1>3, <1>4, <1>5, <1>6 DEF VaultInv

LEMMA RestartInv == ASSUME VaultInv, Restart PROVE VaultInv'
<1>1. TypeOK'
    BY DEF VaultInv, TypeOK, Restart
<1>2. LiveReverseIsCurrent' /\ ReusedIsRestorable'
    BY DEF Restart, LiveReverseIsCurrent, ReusedIsRestorable, Live
<1>3. EntriesGenerated' /\ UsedIsCurrent'
    BY DEF Restart, EntriesGenerated, UsedIsCurrent
<1> QED BY <1>1, <1>2, <1>3 DEF VaultInv

LEMMA NextInv == VaultInv /\ [Next]_vars => VaultInv'
<1> SUFFICES ASSUME VaultInv, [Next]_vars PROVE VaultInv'
    OBVIOUS
<1>1. ASSUME NEW r \in Requests, RequestStep(r) PROVE VaultInv'
    <2>1. ASSUME NEW k \in Scopes, Begin(r, k) PROVE VaultInv'
        BY <2>1, BeginInv
    <2>2. ASSUME NEW v \in Values, ReuseSurrogate(r, v) PROVE VaultInv'
        BY <2>2, ReuseInv
    <2>3. ASSUME NEW t \in Types, NEW v \in Values,
                 AllocateSurrogate(r, t, v)
          PROVE  VaultInv'
        BY <2>3, AllocateInv
    <2>4. Forward(r) => VaultInv'
        BY ForwardInv
    <2>5. Restore(r) => VaultInv'
        BY RestoreInv
    <2>6. End(r) => VaultInv'
        BY EndInv
    <2> QED BY <1>1, <2>1, <2>2, <2>3, <2>4, <2>5, <2>6 DEF RequestStep
<1>2. CASE UNCHANGED vars
    <2>1. TypeOK' /\ UsedIsCurrent'
        BY <1>2 DEF vars, VaultInv, TypeOK, UsedIsCurrent, Live
    <2> QED BY <1>2, <2>1, QuietStep DEF vars
<1> QED BY <1>1, <1>2, TickInv, RestartInv DEF Next

-----------------------------------------------------------------------------
(* The theorems. *)

\* The invariant holds in every reachable state.
THEOREM VaultInvariant == Spec => []VaultInv
BY InitInv, NextInv, PTL DEF Spec

\* Types, and entries that stand under their own keys.
THEOREM TypeCorrect == Spec => []TypeOK
<1>1. VaultInv => TypeOK
    BY DEF VaultInv
<1> QED BY <1>1, VaultInvariant, PTL

\* reverse_map never hands out a superseded mapping.
THEOREM ReverseIsCurrent == Spec => []LiveReverseIsCurrent
<1>1. VaultInv => LiveReverseIsCurrent
    BY DEF VaultInv
<1> QED BY <1>1, VaultInvariant, PTL

\* A surrogate that would be reused can be restored, and for as long.
THEOREM ReuseIsRestorable == Spec => []ReusedIsRestorable
<1>1. VaultInv => ReusedIsRestorable
    BY DEF VaultInv
<1> QED BY <1>1, VaultInvariant, PTL

\* Requests of one scope agree on the surrogate of a value.
THEOREM SurrogatesAgree == Spec => []OneSurrogatePerValue
<1>1. VaultInv => OneSurrogatePerValue
    <2> SUFFICES ASSUME VaultInv, NEW q \in Requests, NEW r \in Requests,
                        scope[q] = scope[r],
                        NEW d \in used[q], NEW e \in used[r],
                        Live(d), Live(e), d.original = e.original
                 PROVE  d = e
        BY DEF OneSurrogatePerValue
    <2> QED BY DEF VaultInv, UsedIsCurrent
<1> QED BY <1>1, VaultInvariant, PTL

-----------------------------------------------------------------------------
(* What a step may never do. *)

\* Only a restart replaces, extends or drops a live mapping.
LEMMA LiveMappingStays ==
    ASSUME TypeOK, Next, ~Restart,
           NEW i \in Scopes \X Values, Live(forward[i])
    PROVE  forward'[i] = forward[i]
<1>1. PICK k \in Scopes, v \in Values : i = <<k, v>>
    OBVIOUS
<1>2. ASSUME NEW r \in Requests, NEW t \in Types, NEW w \in Values,
             AllocateSurrogate(r, t, w)
      PROVE  forward'[i] = forward[i]
    <2> DEFINE e == NewEntry(scope[r], t, w)
    <2>1. scope[r] \in Scopes /\ now \in Nat
        BY DEF TypeOK
    <2>2. e.original = w /\ e # NoEntry
        BY <2>1, NewEntryFacts, ZenonT(30)
    <2> HIDE DEF e
    <2>3. forward' = [forward EXCEPT ![<<scope[r], w>>] = e]
        BY <1>2, <2>2 DEF AllocateSurrogate, Put, e
    <2>4. Get(scope[r], w) = NoEntry
        BY <1>2 DEF AllocateSurrogate
    <2>5. ~Live(forward[<<scope[r], w>>])
        BY <2>4 DEF Get, Live
    <2> QED BY <2>1, <2>3, <2>5 DEF TypeOK
<1>3. ASSUME NEW r \in Requests, Restore(r)
      PROVE  forward'[i] = forward[i]
    <2>1. PurgeExpired
        BY <1>3 DEF Restore
    <2> QED BY <1>1, <2>1, PurgeFacts
<1>4. \/ Tick
      \/ \E r \in Requests :
            \/ \E kk \in Scopes : Begin(r, kk)
            \/ \E w \in Values : ReuseSurrogate(r, w)
            \/ Forward(r)
            \/ End(r)
      \/ \E r \in Requests : Restore(r)
      \/ \E r \in Requests, t \in Types, w \in Values :
            AllocateSurrogate(r, t, w)
    BY DEF Next, RequestStep
<1> QED
    BY <1>2, <1>3, <1>4 DEF Tick, Begin, ReuseSurrogate, Forward, End

THEOREM MappingIsStable == Spec => StableWhileLive
<1>1. VaultInv /\ [Next]_vars =>
        [ \/ Restart
          \/ \A i \in Scopes \X Values :
                Live(forward[i]) => forward'[i] = forward[i] ]_vars
    BY LiveMappingStays DEF VaultInv
<1> QED BY <1>1, VaultInvariant, PTL DEF Spec, StableWhileLive

\* What a restore shows for a live surrogate of the request's own payload.
LEMMA RestoreShows ==
    ASSUME VaultInv, NEW r \in Requests, Restore(r),
           NEW e \in used[r], Live(e)
    PROVE  /\ scope[r] \in Scopes
           /\ e \in Entry
           /\ forward[<<scope[r], e.original>>] = e
           /\ Live(reverse[<<scope[r], e.surrogate>>])
<1>1. /\ scope[r] \in Scopes
      /\ e \in Entry
      /\ e.original \in Values
      /\ e.surrogate \in Surrogates
      /\ e.expires \in Nat
      /\ now \in Nat
    BY DEF VaultInv, TypeOK, Entry
<1>2. forward[<<scope[r], e.original>>] = e
    BY DEF VaultInv, UsedIsCurrent
<1>3. LET back == reverse[<<scope[r], e.surrogate>>] IN
      /\ back # NoEntry
      /\ back.expires >= e.expires
    BY <1>1, <1>2 DEF VaultInv, ReusedIsRestorable
<1>4. reverse[<<scope[r], e.surrogate>>].expires \in Nat
    BY <1>1, <1>3 DEF VaultInv, TypeOK, Entry
<1> QED BY <1>1, <1>2, <1>3, <1>4 DEF Live

LEMMA RestoreView ==
    ASSUME VaultInv, NEW r \in Requests, Restore(r),
           NEW s \in Surrogates, NEW v \in Values
    PROVE  <<s, v>> \in view'[r] <=>
              /\ Live(reverse[<<scope[r], s>>])
              /\ reverse[<<scope[r], s>>].original = v
<1>1. view'[r] = ReverseMap(scope[r])
    BY DEF VaultInv, TypeOK, Restore
<1> QED BY <1>1 DEF ReverseMap

\* Both directions only hold surrogates that the generator gives.
LEMMA SharedSurrogateCollides ==
    ASSUME VaultInv, NEW k \in Scopes, NEW v \in Values,
           NEW s \in Surrogates,
           forward[<<k, v>>] # NoEntry, forward[<<k, v>>].surrogate = s,
           reverse[<<k, s>>] # NoEntry
    PROVE  Collide(k, reverse[<<k, s>>].original, v)
<1>1. PICK t \in Types : s = Generate[<<k, t, v>>]
    BY DEF VaultInv, EntriesGenerated
<1>2. PICK u \in Types : s = Generate[<<k, u, reverse[<<k, s>>].original>>]
    BY DEF VaultInv, EntriesGenerated
<1> QED BY <1>1, <1>2 DEF Collide

\* For every generator, only a collision can restore a wrong original.
THEOREM WrongNeedsCollision == Spec => WrongOnlyByCollision
<1>1. ASSUME VaultInv, NEW r \in Requests, Restore(r),
             NEW e \in used[r], Live(e)
      PROVE  \E v \in Values :
                /\ <<e.surrogate, v>> \in view'[r]
                /\ v # e.original => Collide(scope[r], v, e.original)
    <2> DEFINE back == reverse[<<scope[r], e.surrogate>>]
    <2>1. /\ scope[r] \in Scopes
          /\ e \in Entry
          /\ forward[<<scope[r], e.original>>] = e
          /\ Live(back)
        BY <1>1, RestoreShows
    <2>2. e.surrogate \in Surrogates /\ e.original \in Values
        BY <2>1 DEF Entry
    <2>3. back # NoEntry /\ back.original \in Values
        BY <1>1, <2>1, <2>2 DEF VaultInv, TypeOK, Live, Entry
    <2>4. <<e.surrogate, back.original>> \in view'[r]
        BY <1>1, <2>1, <2>2, <2>3, RestoreView
    <2>5. Collide(scope[r], back.original, e.original)
        BY <1>1, <2>1, <2>2, <2>3, SharedSurrogateCollides
    <2> QED BY <2>3, <2>4, <2>5
<1>2. VaultInv /\ [Next]_vars =>
        [ \A r \in Requests : Restore(r) =>
            \A e \in used[r] : Live(e) =>
                \E v \in Values :
                    /\ <<e.surrogate, v>> \in view'[r]
                    /\ v # e.original => Collide(scope[r], v, e.original) ]_vars
    BY <1>1
<1> QED BY <1>2, VaultInvariant, PTL DEF Spec, WrongOnlyByCollision

\* Without collisions the live reverse direction is the inverse of the live
\* forward direction, entry by entry.
LEMMA DirectionsAgree ==
    ASSUME VaultInv, CollisionFree, NEW k \in Scopes,
           NEW s \in Surrogates, NEW v \in Values
    PROVE  (Live(reverse[<<k, s>>]) /\ reverse[<<k, s>>].original = v) <=>
           (Live(forward[<<k, v>>]) /\ forward[<<k, v>>].surrogate = s)
<1>1. ASSUME Live(reverse[<<k, s>>]), reverse[<<k, s>>].original = v
      PROVE  Live(forward[<<k, v>>]) /\ forward[<<k, v>>].surrogate = s
    BY <1>1 DEF VaultInv, TypeOK, LiveReverseIsCurrent, Live
<1>2. ASSUME Live(forward[<<k, v>>]), forward[<<k, v>>].surrogate = s
      PROVE  Live(reverse[<<k, s>>]) /\ reverse[<<k, s>>].original = v
    <2>1. forward[<<k, v>>] # NoEntry /\ forward[<<k, v>>].expires > now
        BY <1>2 DEF Live
    <2>2. /\ reverse[<<k, s>>] # NoEntry
          /\ reverse[<<k, s>>].expires >= forward[<<k, v>>].expires
        BY <1>2, <2>1 DEF VaultInv, ReusedIsRestorable, Live
    <2>3. /\ now \in Nat
          /\ forward[<<k, v>>].expires \in Nat
          /\ reverse[<<k, s>>].expires \in Nat
          /\ reverse[<<k, s>>].original \in Values
        BY <2>1, <2>2 DEF VaultInv, TypeOK, Entry
    <2>4. Live(reverse[<<k, s>>])
        BY <2>1, <2>2, <2>3 DEF Live
    <2>5. Collide(k, reverse[<<k, s>>].original, v)
        BY <1>2, <2>1, <2>2, SharedSurrogateCollides
    <2>6. reverse[<<k, s>>].original = v
        BY <2>3, <2>5 DEF CollisionFree
    <2> QED BY <2>4, <2>6
<1> QED BY <1>1, <1>2

\* The round trip, for every generator that keeps a scope's values apart.
THEOREM RoundTripHolds == CollisionFree => (Spec => RoundTrip)
<1> SUFFICES ASSUME CollisionFree PROVE Spec => RoundTrip
    OBVIOUS
<1>1. ASSUME VaultInv, NEW r \in Requests, Restore(r),
             NEW e \in used[r], Live(e), NEW v \in Values
      PROVE  <<e.surrogate, v>> \in view'[r] <=> v = e.original
    <2>1. /\ scope[r] \in Scopes
          /\ e \in Entry
          /\ forward[<<scope[r], e.original>>] = e
          /\ Live(reverse[<<scope[r], e.surrogate>>])
        BY <1>1, RestoreShows
    <2>2. e.surrogate \in Surrogates /\ e.original \in Values
        BY <2>1 DEF Entry
    <2>3. reverse[<<scope[r], e.surrogate>>].original = e.original
        BY <1>1, <2>1, <2>2, DirectionsAgree
    <2> QED BY <1>1, <2>1, <2>2, <2>3, RestoreView
<1>2. ASSUME VaultInv, NEW r \in Requests, Restore(r), NEW p \in view'[r]
      PROVE  /\ Live(forward[<<scope[r], p[2]>>])
             /\ forward[<<scope[r], p[2]>>].surrogate = p[1]
    <2>1. scope[r] \in Scopes /\ view'[r] = ReverseMap(scope[r])
        BY <1>2 DEF VaultInv, TypeOK, Restore
    <2>2. PICK s \in Surrogates :
              /\ Live(reverse[<<scope[r], s>>])
              /\ p = <<s, reverse[<<scope[r], s>>].original>>
        BY <1>2, <2>1 DEF ReverseMap
    <2>3. reverse[<<scope[r], s>>].original \in Values
        BY <1>2, <2>1, <2>2 DEF VaultInv, TypeOK, Live, Entry
    <2>4. p[1] = s /\ p[2] = reverse[<<scope[r], s>>].original
        BY <2>2
    <2> QED BY <1>2, <2>1, <2>2, <2>3, <2>4, DirectionsAgree
<1>3. VaultInv /\ [Next]_vars =>
        [ \A r \in Requests : Restore(r) =>
            /\ \A e \in used[r] : Live(e) =>
                  \A v \in Values :
                      <<e.surrogate, v>> \in view'[r] <=> v = e.original
            /\ \A p \in view'[r] :
                  /\ Live(forward[<<scope[r], p[2]>>])
                  /\ forward[<<scope[r], p[2]>>].surrogate = p[1] ]_vars
    BY <1>1, <1>2
<1> QED BY <1>3, VaultInvariant, PTL DEF Spec, RoundTrip

-----------------------------------------------------------------------------
(* The vault implements the one-to-one table of module SurrogateTable. *)

TheTable ==
    [i \in Scopes \X Values |->
        IF Live(forward[i]) THEN forward[i].surrogate ELSE NoEntry]

TableNext == [Table!Next]_<<TheTable, view>>

\* The table, entry by entry, before and after a step.
LEMMA TableFacts ==
    /\ \A i \in Scopes \X Values :
          TheTable[i] = IF Live(forward[i]) THEN forward[i].surrogate ELSE NoEntry
    /\ \A i \in Scopes \X Values :
          TheTable'[i] = IF Live(forward[i])' THEN forward'[i].surrogate ELSE NoEntry
    /\ TheTable = [i \in Scopes \X Values |-> TheTable[i]]
    /\ TheTable' = [i \in Scopes \X Values |-> TheTable'[i]]
BY DEF TheTable

\* A step that keeps or forgets each value and each answer.
LEMMA ForgetStep ==
    ASSUME TypeOK, TypeOK',
           \A i \in Scopes \X Values :
               Live(forward[i])' => Live(forward[i]) /\ forward'[i] = forward[i],
           \A r \in Requests : view'[r] \in {view[r], {}}
    PROVE  Table!Forget
<1>1. \A i \in Scopes \X Values : TheTable'[i] \in {TheTable[i], NoEntry}
    BY TableFacts
<1>2. view' = [r \in Requests |-> view'[r]]
    BY DEF TypeOK
<1> QED BY <1>1, <1>2, TableFacts DEF Table!Forget, TheTable

LEMMA AllocateAssigns ==
    ASSUME CollisionFree, VaultInv, VaultInv', NEW r \in Requests,
           NEW t \in Types, NEW v \in Values, AllocateSurrogate(r, t, v)
    PROVE  TableNext
<1> DEFINE k == scope[r]
           e == NewEntry(k, t, v)
           s == e.surrogate
<1>1. k \in Scopes /\ now \in Nat /\ now' = now /\ view' = view
    BY DEF VaultInv, TypeOK, AllocateSurrogate
<1>2. Generate[<<k, t, v>>] \in Surrogates
    BY <1>1
<1>3. /\ e \in Entry
      /\ e # NoEntry
      /\ e.original = v
      /\ e.expires > now
      /\ s \in Surrogates
      /\ s = Generate[<<k, t, v>>]
    BY <1>1, <1>2, NewEntryFacts
<1> HIDE DEF k, e
<1>4. forward' = [forward EXCEPT ![<<k, v>>] = e]
    BY <1>3 DEF AllocateSurrogate, Put, e, k
<1>5. ~Live(forward[<<k, v>>])
    <2>1. Get(k, v) = NoEntry
        BY DEF AllocateSurrogate, k
    <2> QED BY <2>1 DEF Get, Live
<1>6. TheTable[<<k, v>>] = NoEntry
    BY <1>1, <1>5, TableFacts
<1>7. \A w \in Values : TheTable[<<k, w>>] # s
    <2> SUFFICES ASSUME NEW w \in Values, TheTable[<<k, w>>] = s PROVE FALSE
        OBVIOUS
    <2>1. Live(forward[<<k, w>>]) /\ forward[<<k, w>>].surrogate = s
        BY <1>1, <1>3, TableFacts
    <2>2. PICK u \in Types : s = Generate[<<k, u, w>>]
        BY <1>1, <2>1 DEF VaultInv, EntriesGenerated, Live
    <2>3. Collide(k, w, v)
        BY <1>3, <2>2 DEF Collide
    <2>4. w = v
        BY <1>1, <2>3 DEF CollisionFree
    <2> QED BY <1>5, <2>1, <2>4
<1>8. TheTable' = [TheTable EXCEPT ![<<k, v>>] = s]
    <2>1. ASSUME NEW i \in Scopes \X Values
          PROVE  TheTable'[i] = IF i = <<k, v>> THEN s ELSE TheTable[i]
        BY <1>1, <1>3, <1>4, TableFacts, SMTT(20) DEF VaultInv, TypeOK, Live
    <2> QED BY <1>1, <2>1 DEF TheTable
<1>9. PICK kk \in Scopes, x \in Surrogates : kk = k /\ x = s
    BY <1>1, <1>3
<1>10. Table!Assign(kk, v, x)
    BY <1>1, <1>6, <1>7, <1>8, <1>9
    DEF Table!Assign, Table!Unused, TheTable
<1>11. Table!Next
    BY <1>10 DEF Table!Next
<1> QED BY <1>11 DEF TableNext, TheTable

LEMMA RestoreAnswers ==
    ASSUME CollisionFree, VaultInv, NEW r \in Requests, Restore(r)
    PROVE  TableNext
<1> DEFINE k == scope[r]
<1>1. /\ k \in Scopes /\ now \in Nat /\ now' = now
      /\ view' = [view EXCEPT ![r] = ReverseMap(k)]
      /\ PurgeExpired
    BY DEF VaultInv, TypeOK, Restore
<1>2. TheTable' = TheTable
    <2>1. ASSUME NEW kk \in Scopes, NEW v \in Values
          PROVE  TheTable'[<<kk, v>>] = TheTable[<<kk, v>>]
        <3>1. forward'[<<kk, v>>] =
                IF Live(forward[<<kk, v>>]) THEN forward[<<kk, v>>] ELSE NoEntry
            BY <1>1, PurgeFacts DEF VaultInv
        <3>2. Live(forward[<<kk, v>>])' <=> Live(forward[<<kk, v>>])
            BY <1>1, <3>1 DEF Live
        <3> QED BY <3>1, <3>2, TableFacts
    <2>2. \A i \in Scopes \X Values : TheTable'[i] = TheTable[i]
        BY <2>1
    <2> QED BY <2>2, TableFacts
<1>3. ReverseMap(k) = Table!Inverse(k)
    <2>1. ASSUME NEW p \in ReverseMap(k) PROVE p \in Table!Inverse(k)
        <3>1. PICK s \in Surrogates :
                  /\ Live(reverse[<<k, s>>])
                  /\ p = <<s, reverse[<<k, s>>].original>>
            BY <2>1 DEF ReverseMap
        <3>2. reverse[<<k, s>>].original \in Values
            BY <1>1, <3>1 DEF VaultInv, TypeOK, Live, Entry
        <3> DEFINE v == reverse[<<k, s>>].original
        <3>3. Live(forward[<<k, v>>]) /\ forward[<<k, v>>].surrogate = s
            BY <1>1, <3>1, <3>2, DirectionsAgree
        <3>4. TheTable[<<k, v>>] = s /\ s # NoEntry
            BY <1>1, <3>2, <3>3, TableFacts
        <3> QED BY <3>1, <3>2, <3>4 DEF Table!Inverse, TheTable
    <2>2. ASSUME NEW p \in Table!Inverse(k) PROVE p \in ReverseMap(k)
        <3>1. PICK v \in Values :
                  /\ TheTable[<<k, v>>] # NoEntry
                  /\ p = <<TheTable[<<k, v>>], v>>
            BY <2>2 DEF Table!Inverse, TheTable
        <3>2. Live(forward[<<k, v>>]) /\ TheTable[<<k, v>>] = forward[<<k, v>>].surrogate
            BY <1>1, <3>1, TableFacts
        <3>3. forward[<<k, v>>].surrogate \in Surrogates
            BY <1>1, <3>2 DEF VaultInv, TypeOK, Live, Entry
        <3>4. /\ Live(reverse[<<k, forward[<<k, v>>].surrogate>>])
              /\ reverse[<<k, forward[<<k, v>>].surrogate>>].original = v
            BY <1>1, <3>2, <3>3, DirectionsAgree
        <3> QED BY <3>1, <3>2, <3>3, <3>4 DEF ReverseMap
    <2> QED BY <2>1, <2>2
<1>4. Table!Answer(r, k)
    BY <1>1, <1>2, <1>3 DEF Table!Answer, TheTable
<1> QED BY <1>1, <1>4 DEF TableNext, Table!Next

LEMMA StepRefines ==
    ASSUME CollisionFree, VaultInv, VaultInv', [Next]_vars
    PROVE  TableNext
<1>1. ASSUME NEW r \in Requests, NEW k \in Scopes, Begin(r, k)
      PROVE  TableNext
    <2>1. Table!Forget
        BY <1>1, ForgetStep DEF Begin, VaultInv, TypeOK, Live
    <2> QED BY <2>1 DEF TableNext, Table!Next
<1>2. ASSUME UNCHANGED <<now, forward, view>> PROVE TableNext
    BY <1>2 DEF TableNext, TheTable, Live
<1>3. ASSUME Tick PROVE TableNext
    <2>1. now \in Nat /\ now' = now + 1 /\ UNCHANGED <<forward, view>>
        BY <1>3 DEF Tick, VaultInv, TypeOK
    <2>2. ASSUME NEW i \in Scopes \X Values, Live(forward[i])'
          PROVE  Live(forward[i]) /\ forward'[i] = forward[i]
        <3>1. forward[i] \in Entry
            BY <2>1, <2>2 DEF VaultInv, TypeOK, Live
        <3> QED BY <2>1, <2>2, <3>1 DEF Live, Entry
    <2>3. Table!Forget
        BY <2>1, <2>2, ForgetStep DEF VaultInv
    <2> QED BY <2>3 DEF TableNext, Table!Next
<1>4. ASSUME Restart PROVE TableNext
    <2>1. Table!Forget
        BY <1>4, ForgetStep DEF Restart, VaultInv, Live
    <2> QED BY <2>1 DEF TableNext, Table!Next
<1>5. ASSUME NEW r \in Requests, RequestStep(r) PROVE TableNext
    <2>1. ASSUME NEW t \in Types, NEW v \in Values, AllocateSurrogate(r, t, v)
          PROVE  TableNext
        BY <2>1, AllocateAssigns
    <2>2. CASE Restore(r)
        BY <2>2, RestoreAnswers
    <2>3. ASSUME NEW v \in Values, ReuseSurrogate(r, v) PROVE TableNext
        BY <2>3, <1>2 DEF ReuseSurrogate
    <2>4. CASE Forward(r) \/ End(r)
        BY <2>4, <1>2 DEF Forward, End
    <2> QED BY <1>1, <1>5, <2>1, <2>2, <2>3, <2>4 DEF RequestStep
<1>6. CASE UNCHANGED vars
    BY <1>2, <1>6 DEF vars
<1> QED BY <1>3, <1>4, <1>5, <1>6 DEF Next

\* The two dictionaries with their expiry dates implement the table.
THEOREM VaultImplementsTable == CollisionFree => (Spec => TableSpec)
<1> SUFFICES ASSUME CollisionFree PROVE Spec => TableSpec
    OBVIOUS
<1>1. Init => Table!Init
    BY DEF Init, Table!Init, Live
<1>2. VaultInv /\ VaultInv' /\ [Next]_vars => TableNext
    BY StepRefines
<1> QED BY <1>1, <1>2, VaultInvariant, PTL
        DEF Spec, TableSpec, Table!Spec, TableNext, TheTable
=============================================================================
