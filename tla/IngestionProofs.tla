---------------------------- MODULE IngestionProofs ----------------------------
(***************************************************************************)
(* The two halves of an observation's way in.                               *)
(*                                                                         *)
(* What SignedIngest promises, for any number of messages, handlers and     *)
(* commands on the source, any window, and any lead and delay that together *)
(* fit in it: SignedOnce, and the keys under it.                            *)
(*                                                                         *)
(* What EdgeAgent promises, for any files, reads and batches, any number of *)
(* requests, restarts and failures: ReadsAreKept and RepeatsBounded.        *)
(***************************************************************************)
EXTENDS SignedIngest, EdgeAgent, TLAPS, FiniteSetTheorems, SequenceTheorems

\* A handler's message was fresh when it was checked, not Delay ago yet.
HandlersInTime ==
    \A h \in Handlers : handler[h].pc # "idle" =>
        /\ handler[h].message \in sent
        /\ handler[h].at <= now /\ now <= handler[h].at + Delay
        /\ date[handler[h].message] <= handler[h].at + Ahead
        /\ handler[h].at <= date[handler[h].message] + Window

\* No date is further ahead of the clock, or of its row, than Ahead.
DatesInTime ==
    /\ \A m \in sent : date[m] <= now + Ahead
    /\ \A m \in nonces : date[m] <= seenAt[m] + Ahead

\* What was accepted and forgotten is too old even for a handler that checked it.
ForgottenLate ==
    \A m \in Messages : accepted[m] > 0 =>
        /\ m \in sent
        /\ m \notin nonces => now > date[m] + Window + Delay

IInv == ReceiverTypeOK /\ HandlersInTime /\ DatesInTime /\ ForgottenLate /\ AcceptedOnce

\* A command past its minting has a key.
ShowsMinted == \A o \in Operators : command[o].pc \in {"retire", "show"} => command[o].key # 0

\* A rotation that has its replacement retires older keys only.
RetiresOlder ==
    \A o \in Operators : command[o].pc = "retire" =>
        \A k \in command[o].previous : k < command[o].key

KeyInv == SourcesTypeOK /\ ShowsMinted /\ RetiresOlder /\ FeedKeepsItsKey

LEMMA InitKeyInv == Init => KeyInv
<1>1. Init => SourcesTypeOK
  BY DEF Init, SourcesInit, NoCommand, SourcesTypeOK
<1>2. Init => ShowsMinted /\ RetiresOlder /\ FeedKeepsItsKey
  BY DEF Init, SourcesInit, NoCommand, ShowsMinted, RetiresOlder, FeedKeepsItsKey
<1> QED BY <1>1, <1>2 DEF KeyInv

LEMMA ManageKeyInv ==
    ASSUME KeyInv, NEW o \in Operators, Manage(o)
    PROVE  KeyInv'
<1> USE DEF KeyInv
<1>1. CASE Register(o) \/ IssueKey(o) \/ Rotate(o) \/ Revoke(o)
  <2>1. /\ UNCHANGED <<minted, live, shown, withdrawn>>
        /\ status' \in {status, "active", "revoked"}
        /\ \E at \in {"mint", "withdraw"} : \E p \in {{}, live} : Start(o, at, p)
    BY <1>1 DEF Register, IssueKey, Rotate, Revoke
  <2>2. PICK at \in {"mint", "withdraw"}, p \in {{}, live} : Start(o, at, p)
    BY <2>1
  <2>3. command' = [command EXCEPT ![o] = [pc |-> at, previous |-> p, key |-> 0]]
    BY <2>2 DEF Start
  <2>4. p \subseteq 1 .. minted
    BY <2>2 DEF SourcesTypeOK
  <2>5. SourcesTypeOK'
    BY <2>1, <2>3, <2>4 DEF SourcesTypeOK
  <2>6. ShowsMinted' /\ RetiresOlder' /\ FeedKeepsItsKey'
    BY <2>1, <2>3 DEF SourcesTypeOK, ShowsMinted, RetiresOlder, FeedKeepsItsKey
  <2> QED BY <2>5, <2>6
<1>2. CASE Mint(o)
  <2>1. SourcesTypeOK'
    <3>1. /\ minted' = minted + 1 /\ minted' \in Nat
          /\ 1 .. minted \subseteq 1 .. minted' /\ minted' \in 1 .. minted'
      BY <1>2 DEF Mint, SourcesTypeOK
    <3>2. /\ live' \subseteq 1 .. minted' /\ shown' \subseteq 1 .. minted'
          /\ withdrawn' \subseteq 1 .. minted' /\ status' = status
      BY <1>2, <3>1 DEF Mint, SourcesTypeOK
    <3>3. PICK at \in {"show", "retire"} :
            command' = [command EXCEPT ![o].pc = at, ![o].key = minted']
      BY <1>2, <3>1 DEF Mint
    <3>4. ASSUME NEW q \in Operators
          PROVE  /\ command'[q].pc \in {"idle", "mint", "retire", "show", "withdraw"}
                 /\ command'[q].previous \subseteq 1 .. minted'
                 /\ command'[q].key \in 0 .. minted'
      BY <3>1, <3>3 DEF SourcesTypeOK
    <3> QED BY <3>1, <3>2, <3>3, <3>4 DEF SourcesTypeOK
  <2>2. RetiresOlder' /\ ShowsMinted'
    BY <1>2 DEF Mint, SourcesTypeOK, RetiresOlder, ShowsMinted
  <2>3. FeedKeepsItsKey'
    BY <1>2 DEF Mint, FeedKeepsItsKey
  <2> QED BY <2>1, <2>2, <2>3
<1>3. CASE Retire(o)
  <2>1. SourcesTypeOK' /\ RetiresOlder' /\ ShowsMinted'
    BY <1>3 DEF Retire, Retired, Step, SourcesTypeOK, RetiresOlder, ShowsMinted
  <2>2. minted \notin Retired(o)
    BY <1>3 DEF Retire, Retired, SourcesTypeOK, RetiresOlder
  <2>3. FeedKeepsItsKey'
    BY <1>3, <2>2 DEF Retire, FeedKeepsItsKey
  <2> QED BY <2>1, <2>3
<1>4. CASE Show(o) \/ Abandon(o) \/ Withdraw(o)
  <2>1. /\ command' = [command EXCEPT ![o] = [pc |-> "idle", previous |-> {}, key |-> 0]]
        /\ UNCHANGED <<status, minted>>
        /\ live \cup withdrawn \subseteq live' \cup withdrawn'
    BY <1>4 DEF Show, Abandon, Withdraw, NoCommand
  <2>2. live' \subseteq 1 .. minted /\ shown' \subseteq 1 .. minted /\ withdrawn' \subseteq 1 .. minted
    <3>1. /\ minted \in Nat /\ command[o].key \in 0 .. minted
          /\ live \subseteq 1 .. minted /\ shown \subseteq 1 .. minted
          /\ withdrawn \subseteq 1 .. minted
      BY DEF SourcesTypeOK
    <3>2. CASE Show(o)
      <4>1. command[o].key # 0
        BY <3>2 DEF Show, ShowsMinted
      <4>2. command[o].key \in 1 .. minted
        BY <3>1, <4>1
      <4> QED BY <3>1, <3>2, <4>2 DEF Show
    <3>3. CASE Abandon(o) \/ Withdraw(o)
      BY <3>1, <3>3 DEF Abandon, Withdraw
    <3> QED BY <1>4, <3>2, <3>3
  <2>3. SourcesTypeOK'
    BY <2>1, <2>2 DEF SourcesTypeOK
  <2>4. ShowsMinted' /\ RetiresOlder' /\ FeedKeepsItsKey'
    BY <2>1 DEF SourcesTypeOK, ShowsMinted, RetiresOlder, FeedKeepsItsKey
  <2> QED BY <2>3, <2>4
<1>5. CASE Suspend(o) \/ Reactivate(o)
  BY <1>5 DEF Suspend, Reactivate, SourcesTypeOK, ShowsMinted, RetiresOlder, FeedKeepsItsKey
<1> QED BY <1>1, <1>2, <1>3, <1>4, <1>5 DEF Manage

LEMMA NextKeyInv == KeyInv /\ [Next]_vars => KeyInv'
<1> SUFFICES ASSUME KeyInv, [Next]_vars PROVE KeyInv'
  OBVIOUS
<1>1. CASE ManageSource
  BY <1>1, ManageKeyInv DEF ManageSource
<1>2. CASE UNCHANGED sourceVars
  BY <1>2 DEF sourceVars, KeyInv, SourcesTypeOK, ShowsMinted, RetiresOlder, FeedKeepsItsKey
<1>3. ASSUME NEW h \in Handlers, Receive(h) PROVE UNCHANGED sourceVars
  BY <1>3 DEF Receive, Check, Verify, Purge, Spend, Refuse
<1> QED BY <1>1, <1>2, <1>3 DEF Next, Tick, Die, Sign, vars

LEMMA KeysHold == Spec => []KeyInv
BY InitKeyInv, NextKeyInv, PTL DEF Spec

(***************************************************************************)
(* However many rotations, issues and revocations overlap and wherever      *)
(* they die, a feed that was not revoked keeps the key minted last:         *)
(* cmd_rotate retires what it read before it minted its own.                *)
(***************************************************************************)
THEOREM FeedKept == Spec => []FeedKeepsItsKey
<1>1. KeyInv => FeedKeepsItsKey
  BY DEF KeyInv
<1> QED BY <1>1, KeysHold, PTL

LEMMA NumbersAreNaturals ==
    Window \in Nat /\ Ahead \in Nat /\ Behind \in Nat /\ Delay \in Nat /\ MaxTime \in Nat
BY TimesAssumption

LEMMA InitIInv == Init => IInv
BY NumbersAreNaturals, NamesAssumption
   DEF Init, IInv, ServiceKey, ReceiverTypeOK, Idle, HandlersInTime, DatesInTime, ForgottenLate, AcceptedOnce

LEMMA NextIInv ==
    ASSUME Ahead + Delay <= Window, SourcesTypeOK, IInv, [Next]_vars
    PROVE  IInv'
<1> USE NumbersAreNaturals, NamesAssumption DEF IInv
<1>1. CASE Tick
  <2>1. ReceiverTypeOK'
    BY <1>1 DEF Tick, ReceiverTypeOK
  <2>2. HandlersInTime'
    BY <1>1 DEF Tick, ReceiverTypeOK, HandlersInTime
  <2>3. DatesInTime' /\ ForgottenLate' /\ AcceptedOnce'
    BY <1>1 DEF Tick, ReceiverTypeOK, DatesInTime, ForgottenLate, AcceptedOnce
  <2> QED BY <2>1, <2>2, <2>3
<1>2. ASSUME NEW m \in Messages, Sign(m) PROVE IInv'
  <2>1. /\ m \notin sent /\ sent' = sent \cup {m}
        /\ date' \in [Messages -> Int] /\ date'[m] <= now + Ahead
        /\ signedBy' \in [Messages -> Nat]
        /\ \A n \in Messages \ {m} : date'[n] = date[n]
        /\ UNCHANGED <<purgesFirst, now, nonces, seenAt, handler, accepted>>
    <3>1. PICK k \in SigningKeys : signedBy' = [signedBy EXCEPT ![m] = k]
      BY <1>2 DEF Sign
    <3>2. k \in Nat
      BY DEF SigningKeys, ServiceKey, SourcesTypeOK
    <3> QED BY <1>2, <3>1, <3>2 DEF Sign, ReceiverTypeOK
  <2>2. ReceiverTypeOK'
    BY <2>1 DEF ReceiverTypeOK
  <2>3. HandlersInTime'
    BY <2>1 DEF HandlersInTime, ReceiverTypeOK
  <2>4. DatesInTime'
    BY <2>1 DEF DatesInTime, ReceiverTypeOK
  <2>5. ForgottenLate' /\ AcceptedOnce'
    BY <2>1 DEF ForgottenLate, AcceptedOnce, ReceiverTypeOK
  <2> QED BY <2>2, <2>3, <2>4, <2>5
<1>3. ASSUME NEW h \in Handlers, NEW m \in Messages, Check(h, m) PROVE IInv'
  <2>1. ReceiverTypeOK'
    BY <1>3 DEF Check, ReceiverTypeOK
  <2>2. HandlersInTime'
    BY <1>3 DEF Check, Fresh, ReceiverTypeOK, HandlersInTime, DatesInTime
  <2>3. DatesInTime' /\ ForgottenLate' /\ AcceptedOnce'
    BY <1>3 DEF Check, ReceiverTypeOK, DatesInTime, ForgottenLate, AcceptedOnce
  <2> QED BY <2>1, <2>2, <2>3
<1>4. ASSUME NEW h \in Handlers, Purge(h) PROVE IInv'
  <2>1. PICK t \in handler[h].at .. now : nonces' = Recent(t)
    BY <1>4 DEF Purge
  <2>2. ReceiverTypeOK'
    BY <1>4, <2>1 DEF Purge, Recent, Idle, ReceiverTypeOK
  <2>3. HandlersInTime'
    BY <1>4 DEF Purge, Idle, ReceiverTypeOK, HandlersInTime
  <2>4. DatesInTime' /\ AcceptedOnce'
    BY <1>4, <2>1 DEF Purge, Recent, ReceiverTypeOK, DatesInTime, AcceptedOnce
  <2>5. ASSUME NEW m \in Messages, accepted[m] > 0, m \notin nonces'
        PROVE  now > date[m] + Window + Delay
    <3>1. CASE m \in nonces
      <4>1. seenAt[m] < t - 2 * Window /\ t <= now
        BY <3>1, <2>1, <2>5 DEF Recent, ReceiverTypeOK
      <4>2. date[m] <= seenAt[m] + Ahead
        BY <3>1 DEF DatesInTime
      <4> QED BY <4>1, <4>2 DEF ReceiverTypeOK
    <3>2. CASE m \notin nonces
      BY <3>2, <2>5 DEF ForgottenLate
    <3> QED BY <3>1, <3>2
  <2>6. ForgottenLate'
    BY <1>4, <2>5 DEF Purge, ForgottenLate
  <2> QED BY <2>2, <2>3, <2>4, <2>6
<1>5. ASSUME NEW h \in Handlers, Spend(h) PROVE IInv'
  <2> DEFINE m == handler[h].message
  <2>1. PICK t \in handler[h].at .. now : seenAt' = [seenAt EXCEPT ![m] = t]
    BY <1>5 DEF Spend
  <2>2. m \in sent /\ m \in Messages /\ m \notin nonces
    BY <1>5 DEF Spend, Unspent, ReceiverTypeOK, HandlersInTime
  <2>3. accepted[m] = 0
    <3>1. now <= date[m] + Window + Delay
      BY <1>5, <2>2 DEF Spend, HandlersInTime, ReceiverTypeOK
    <3> QED BY <3>1, <2>2 DEF ForgottenLate, ReceiverTypeOK
  <2>4. ReceiverTypeOK'
    BY <1>5, <2>1, <2>2 DEF Spend, Idle, ReceiverTypeOK
  <2>5. HandlersInTime'
    BY <1>5 DEF Spend, Idle, ReceiverTypeOK, HandlersInTime
  <2>6. DatesInTime'
    <3>1. date[m] <= t + Ahead
      BY <1>5, <2>1, <2>2 DEF Spend, HandlersInTime, ReceiverTypeOK
    <3> QED BY <3>1, <1>5, <2>1, <2>2 DEF Spend, ReceiverTypeOK, DatesInTime
  <2>7. ForgottenLate' /\ AcceptedOnce'
    BY <1>5, <2>2, <2>3 DEF Spend, ReceiverTypeOK, ForgottenLate, AcceptedOnce
  <2> QED BY <2>4, <2>5, <2>6, <2>7
<1>6. ASSUME NEW h \in Handlers, Refuse(h) PROVE IInv'
  BY <1>6 DEF Refuse, Idle, ReceiverTypeOK, HandlersInTime, DatesInTime, ForgottenLate, AcceptedOnce
<1>7. CASE Die
  BY <1>7 DEF Die, Idle, ReceiverTypeOK, HandlersInTime, DatesInTime, ForgottenLate, AcceptedOnce
<1>8. ASSUME NEW h \in Handlers, Verify(h) PROVE IInv'
  BY <1>8 DEF Verify, Idle, ReceiverTypeOK, HandlersInTime, DatesInTime, ForgottenLate, AcceptedOnce
<1>9. CASE ManageSource \/ UNCHANGED vars
  BY <1>9 DEF ManageSource, vars, ingestVars, ReceiverTypeOK, HandlersInTime, DatesInTime, ForgottenLate, AcceptedOnce
<1> QED BY <1>1, <1>2, <1>3, <1>4, <1>5, <1>6, <1>7, <1>8, <1>9 DEF Next, Receive

LEMMA IInvForgotten == IInv => ForgottenIsStale
BY NumbersAreNaturals
   DEF IInv, ForgottenIsStale, ForgottenLate, HandlersInTime, Fresh, ReceiverTypeOK

(***************************************************************************)
(* A signed request is accepted at most once, by both receivers, and what   *)
(* was forgotten can come back to nobody: authenticate_signed_source and    *)
(* _authenticated_body, with the bounds on clocks and handlers they need.   *)
(***************************************************************************)
THEOREM SignedOnce ==
    ASSUME Ahead + Delay <= Window
    PROVE  Spec => [](AcceptedOnce /\ ForgottenIsStale)
<1>1. KeyInv /\ IInv /\ [Next]_vars => IInv'
  BY NextIInv DEF KeyInv
<1>2. IInv => AcceptedOnce /\ ForgottenIsStale
  BY IInvForgotten DEF IInv
<1> QED BY InitIInv, KeysHold, <1>1, <1>2, PTL DEF Spec

----------------------------------------------------------------------------
(***************************************************************************)
(* What the agent's queues hold.                                            *)
(***************************************************************************)
Injective(s) == \A i, j \in DOMAIN s : s[i] = s[j] => i = j

\* Spooling puts one read at the end, once if it was not there.
LEMMA SpooledElements ==
    ASSUME NEW S, NEW s \in Seq(S), NEW r \in S
    PROVE  /\ Append(s, r) \in Seq(S)
           /\ Elements(Append(s, r)) = Elements(s) \cup {r}
           /\ Injective(s) /\ r \notin Elements(s) => Injective(Append(s, r))
<1>1. /\ Append(s, r) \in Seq(S) /\ Len(Append(s, r)) = Len(s) + 1
      /\ \A i \in 1 .. Len(s) : Append(s, r)[i] = s[i]
      /\ Append(s, r)[Len(s) + 1] = r
      /\ DOMAIN s = 1 .. Len(s) /\ DOMAIN Append(s, r) = 1 .. (Len(s) + 1) /\ Len(s) \in Nat
  OBVIOUS
<1>2. Elements(Append(s, r)) = Elements(s) \cup {r}
  BY <1>1 DEF Elements
<1>3. ASSUME Injective(s), r \notin Elements(s), NEW i \in 1 .. (Len(s) + 1), NEW j \in 1 .. (Len(s) + 1),
             Append(s, r)[i] = Append(s, r)[j]
      PROVE  i = j
  <2>1. CASE i \in 1 .. Len(s) /\ j \in 1 .. Len(s)
    BY <1>1, <1>3, <2>1 DEF Injective
  <2>2. CASE i = Len(s) + 1 /\ j \in 1 .. Len(s)
    BY <1>1, <1>3, <2>2 DEF Elements
  <2>3. CASE j = Len(s) + 1 /\ i \in 1 .. Len(s)
    BY <1>1, <1>3, <2>3 DEF Elements
  <2> QED BY <1>1, <2>1, <2>2, <2>3
<1> QED BY <1>1, <1>2, <1>3 DEF Injective

\* Taking the first read of a queue leaves the others.
LEMMA TakenElements ==
    ASSUME NEW S, NEW s \in Seq(S), s # <<>>
    PROVE  /\ Head(s) \in S /\ Tail(s) \in Seq(S)
           /\ Elements(s) = {Head(s)} \cup Elements(Tail(s))
           /\ Injective(s) => Injective(Tail(s)) /\ Head(s) \notin Elements(Tail(s))
<1>1. /\ Tail(s) \in Seq(S) /\ Len(s) \in Nat \ {0} /\ Len(Tail(s)) = Len(s) - 1
      /\ Head(s) = s[1] /\ DOMAIN s = 1 .. Len(s) /\ DOMAIN Tail(s) = 1 .. (Len(s) - 1)
      /\ \A i \in 1 .. (Len(s) - 1) : Tail(s)[i] = s[i + 1]
      /\ \A i \in 1 .. Len(s) : s[i] \in S
  OBVIOUS
<1>2. Elements(s) = {Head(s)} \cup Elements(Tail(s))
  <2>1. ASSUME NEW i \in 1 .. Len(s) PROVE s[i] \in {Head(s)} \cup Elements(Tail(s))
    <3>1. CASE i = 1 BY <1>1, <3>1
    <3>2. CASE i # 1
      <4>1. i - 1 \in 1 .. (Len(s) - 1) /\ (i - 1) + 1 = i BY <1>1, <3>2
      <4>2. Tail(s)[i - 1] = s[i] BY <1>1, <4>1
      <4> QED BY <1>1, <4>1, <4>2 DEF Elements
    <3> QED BY <3>1, <3>2
  <2>2. {Head(s)} \cup Elements(Tail(s)) \subseteq Elements(s)
    BY <1>1 DEF Elements
  <2> QED BY <1>1, <2>1, <2>2 DEF Elements
<1>3. ASSUME Injective(s) PROVE Injective(Tail(s)) /\ Head(s) \notin Elements(Tail(s))
  <2>1. ASSUME NEW i \in 1 .. (Len(s) - 1) PROVE Tail(s)[i] # Head(s)
    <3>1. i + 1 \in 1 .. Len(s) /\ 1 \in 1 .. Len(s) /\ i + 1 # 1 BY <1>1
    <3> QED BY <1>1, <1>3, <3>1 DEF Injective
  <2>2. ASSUME NEW i \in 1 .. (Len(s) - 1), NEW j \in 1 .. (Len(s) - 1), Tail(s)[i] = Tail(s)[j]
        PROVE  i = j
    <3>1. i + 1 \in 1 .. Len(s) /\ j + 1 \in 1 .. Len(s) BY <1>1
    <3>2. i + 1 = j + 1 BY <1>1, <1>3, <2>2, <3>1 DEF Injective
    <3> QED BY <3>2
  <2> QED BY <1>1, <2>1, <2>2 DEF Injective, Elements
<1> QED BY <1>1, <1>2, <1>3

\* A prefix and what follows it are the whole queue, and share nothing.
IsSplit(s, b, t) ==
    /\ Elements(s) = Elements(b) \cup Elements(t)
    /\ Injective(s) => Injective(b) /\ Injective(t) /\ Elements(b) \cap Elements(t) = {}

LEMMA SplitElements ==
    ASSUME NEW S, NEW s \in Seq(S), NEW k \in Nat, NEW b, NEW t,
           k <= Len(s), b = SubSeq(s, 1, k), t = SubSeq(s, k + 1, Len(s))
    PROVE  IsSplit(s, b, t)
<1>1. Len(s) \in Nat /\ DOMAIN s = 1 .. Len(s) /\ \A i \in 1 .. Len(s) : s[i] \in S
  OBVIOUS
<1>2. b \in Seq(S) /\ DOMAIN b = 1 .. k /\ \A i \in 1 .. k : b[i] = s[i]
  BY <1>1
<1>3. /\ t \in Seq(S) /\ DOMAIN t = 1 .. (Len(s) - k)
      /\ \A i \in 1 .. (Len(s) - k) : t[i] = s[k + i]
  BY <1>1
<1>4. ASSUME NEW i \in 1 .. Len(s) PROVE s[i] \in Elements(b) \cup Elements(t)
  <2>1. CASE i <= k
    <3>1. i \in 1 .. k BY <1>1, <2>1
    <3>2. b[i] = s[i] BY <1>2, <3>1
    <3> QED BY <1>2, <3>1, <3>2 DEF Elements
  <2>2. CASE i > k
    <3>1. i - k \in 1 .. (Len(s) - k) /\ k + (i - k) = i BY <1>1, <2>2
    <3>2. t[i - k] = s[i] BY <1>3, <3>1
    <3> QED BY <1>3, <3>1, <3>2 DEF Elements
  <2> QED BY <1>1, <2>1, <2>2
<1>5. Elements(b) \cup Elements(t) \subseteq Elements(s)
  <2>1. \A i \in 1 .. k : i \in 1 .. Len(s) BY <1>1
  <2>2. \A i \in 1 .. (Len(s) - k) : k + i \in 1 .. Len(s) BY <1>1
  <2> QED BY <1>1, <1>2, <1>3, <2>1, <2>2 DEF Elements
<1>6. ASSUME Injective(s) PROVE Injective(b) /\ Injective(t) /\ Elements(b) \cap Elements(t) = {}
  <2>1. Injective(b)
    BY <1>1, <1>2, <1>6 DEF Injective
  <2>2. ASSUME NEW i \in 1 .. (Len(s) - k), NEW j \in 1 .. (Len(s) - k), t[i] = t[j] PROVE i = j
    <3>1. k + i \in 1 .. Len(s) /\ k + j \in 1 .. Len(s) BY <1>1
    <3>2. k + i = k + j BY <1>1, <1>3, <1>6, <2>2, <3>1 DEF Injective
    <3> QED BY <1>1, <3>2
  <2>3. ASSUME NEW i \in 1 .. k, NEW j \in 1 .. (Len(s) - k) PROVE b[i] # t[j]
    <3>1. PICK m \in 1 .. Len(s) : m = k + j BY <1>1
    <3>2. i \in 1 .. Len(s) /\ i # m BY <1>1, <3>1
    <3>3. b[i] = s[i] /\ t[j] = s[m] BY <1>2, <1>3, <3>1
    <3>4. s[i] # s[m] BY <1>1, <1>6, <3>2 DEF Injective
    <3> QED BY <3>3, <3>4
  <2>4. Injective(t) BY <1>3, <2>2 DEF Injective
  <2>5. ASSUME NEW x \in Elements(b), x \in Elements(t) PROVE FALSE
    <3>1. PICK i \in 1 .. k : x = b[i] BY <1>2 DEF Elements
    <3>2. PICK j \in 1 .. (Len(s) - k) : x = t[j] BY <1>3, <2>5 DEF Elements
    <3> QED BY <2>3, <3>1, <3>2
  <2> QED BY <2>1, <2>4, <2>5
<1>7. Elements(s) = Elements(b) \cup Elements(t)
  BY <1>1, <1>4, <1>5 DEF Elements
<1> QED BY <1>6, <1>7 DEF IsSplit

\* What the recognizer finds in a frame is the frame's reads, each once.
LEMMA RecognizedElements ==
    ASSUME NEW n \in Names, NEW v \in 1 .. MaxVersion,
           NEW s, s = [i \in 1 .. ReadsIn[n] |-> <<n, v, i>>]
    PROVE  s \in Seq(Reads) /\ Elements(s) = ReadsOf(<<n, v>>) /\ Injective(s)
<1>1. ReadsIn[n] \in Nat
  BY ReadsAssumption
<1>2. <<n, v>> \in Frames
  BY DEF Frames
<1>r. ReadsOf(<<n, v>>) = {<<n, v, i>> : i \in 1 .. ReadsIn[n]} /\ ReadsOf(<<n, v>>) \subseteq Reads
  BY <1>2 DEF ReadsOf, Reads
<1>3. s \in Seq(Reads) /\ DOMAIN s = 1 .. ReadsIn[n] /\ \A i \in 1 .. ReadsIn[n] : s[i] = <<n, v, i>>
  <2>1. DOMAIN s = 1 .. ReadsIn[n] /\ \A i \in 1 .. ReadsIn[n] : s[i] = <<n, v, i>>
    OBVIOUS
  <2>2. s \in [1 .. ReadsIn[n] -> Reads]
    BY <1>r
  <2>3. s \in Seq(Reads)
    BY <1>1, <2>2, SeqDef
  <2> QED BY <2>1, <2>3
<1>4. Injective(s)
  BY <1>3 DEF Injective
<1>5. Elements(s) = ReadsOf(<<n, v>>)
  BY <1>3, <1>r DEF Elements
<1> QED BY <1>3, <1>4, <1>5

FrameOf(r) == <<r[1], r[2]>>

LEMMA FrameOfRead ==
    ASSUME NEW r \in Reads
    PROVE  /\ FrameOf(r) \in Frames
           /\ \A f \in Frames : r \in ReadsOf(f) <=> f = FrameOf(r)
<1>1. PICK f \in Frames : r \in ReadsOf(f)
  BY DEF Reads
<1>2. ASSUME NEW g \in Frames, r \in ReadsOf(g) PROVE g = FrameOf(r)
  <2>1. g = <<g[1], g[2]>>
    BY DEF Frames
  <2>2. r[1] = g[1] /\ r[2] = g[2]
    BY <1>2 DEF ReadsOf
  <2> QED BY <2>1, <2>2 DEF FrameOf
<1> QED BY <1>1, <1>2

----------------------------------------------------------------------------
(***************************************************************************)
(* Types.                                                                   *)
(***************************************************************************)
AgentPcs == {"scan", "frame", "spool", "save", "flush", "send", "wait", "keep"}
RequestPcs == {"free", "authenticate", "items", "report", "answered"}
Agent == [pc : AgentPcs, todo : SUBSET Names, frame : Frames \cup {NoFrame},
          unread : Seq(Reads), new : BOOLEAN, pending : Seq(Reads), rest : Seq(Reads),
          call : Calls \cup {NoCall}]

\* A handler works through its batch from the front.
Request == {h \in [pc : RequestPcs, batch : Seq(Reads), next : Nat, accepted : Seq(Reads),
                   rejected : SUBSET Malformed,
                   answer : {"none", "201", "400", "401", "413", "500"}] :
              /\ h.next <= Len(h.batch)
              /\ Elements(h.accepted) \subseteq Elements(h.batch)
              /\ h.rejected \subseteq Elements(h.batch)}

\* The camera's files: each is missing, or there in its last version.
CameraTypes ==
    /\ deleteAfter \in BOOLEAN
    /\ shot \in [Names -> 0 .. MaxVersion] /\ watch \in [Names -> 0 .. MaxVersion]
    /\ \A n \in Names : watch[n] \in {0, shot[n]}

\* The agent works on files that are there, and has a frame only while it spools it.
AgentTypes ==
    /\ agent \in Agent
    /\ saved \subseteq Frames /\ processed \subseteq Frames /\ spool \in Seq(Reads)
    /\ (agent.pc = "wait") = (agent.call # NoCall)
    /\ \A n \in agent.todo : watch[n] > 0
    /\ agent.pc # "spool" => agent.frame = NoFrame /\ agent.unread = <<>>
    /\ agent.pc = "spool" => agent.frame \in Frames /\ agent.frame[1] \in agent.todo

HandlerTypes == call \in [Calls -> Request]

TableTypes ==
    /\ active \in BOOLEAN
    /\ stored \in [Reads -> Nat] /\ audited \in [Reads -> Nat]
    /\ refused \subseteq Malformed /\ givenUp \subseteq Reads
    /\ readings \in [Frames -> Nat]
    /\ count \in [crash : 0 .. MaxCrashes, fault : 0 .. MaxFaults, suspension : Nat]

EdgeTypes == CameraTypes /\ AgentTypes /\ HandlerTypes /\ TableTypes

\* Nothing is called "wait", or a call, but the state and the calls themselves.
LEMMA StartedType == Started \in Agent /\ Free \in Request
<1>1. <<>> \in Seq(Reads) /\ Elements(<<>>) = {} /\ Len(<<>>) = 0
  BY DEF Elements
<1> QED BY <1>1 DEF Started, Agent, AgentPcs, Free, Request, RequestPcs

LEMMA InitTypes == EdgeInit => EdgeTypes
<1> SUFFICES ASSUME EdgeInit PROVE EdgeTypes
  OBVIOUS
<1>b. MaxVersion \in Nat /\ MaxCrashes \in Nat /\ MaxFaults \in Nat
  BY BoundsAssumption
<1>1. CameraTypes
  BY <1>b DEF EdgeInit, CameraTypes
<1>2. AgentTypes
  <2>1. agent \in Agent
    BY StartedType DEF EdgeInit
  <2>2. spool \in Seq(Reads)
    BY DEF EdgeInit
  <2> QED BY <2>1, <2>2 DEF EdgeInit, AgentTypes, Started
<1>3. HandlerTypes
  BY StartedType DEF EdgeInit, HandlerTypes
<1>4. TableTypes
  BY <1>b DEF EdgeInit, TableTypes
<1> QED BY <1>1, <1>2, <1>3, <1>4 DEF EdgeTypes

LEMMA CameraStep == ASSUME EdgeTypes, EdgeNext PROVE CameraTypes'
<1> USE DEF EdgeTypes
<1>b. MaxVersion \in Nat
  BY BoundsAssumption
<1>1. ASSUME NEW n \in Names, Shoot(n) PROVE CameraTypes'
  BY <1>1, <1>b DEF Shoot, CameraTypes
<1>2. CASE Mark
  <2>1. agent.frame[1] \in Names
    BY <1>2 DEF Mark, AgentTypes, Agent
  <2>2. UNCHANGED <<deleteAfter, shot>> /\ (watch' = watch \/ watch' = [watch EXCEPT ![agent.frame[1]] = Removed(agent.frame[1])])
    BY <1>2 DEF Mark
  <2> QED BY <1>b, <2>1, <2>2 DEF CameraTypes, Removed
<1>3. CASE UNCHANGED <<deleteAfter, shot, watch>>
  BY <1>3 DEF CameraTypes
<1>4. ASSUME NEW n \in Names, Skip(n) \/ Recognize(n) PROVE UNCHANGED <<deleteAfter, shot, watch>>
  BY <1>4 DEF Skip, Recognize
<1>5. ASSUME NEW c \in Calls, Send(c) \/ Serve(c) \/ Fail(c) PROVE UNCHANGED <<deleteAfter, shot, watch>>
  BY <1>5 DEF Send, Serve, Authenticate, Accept, Reject, Audit, Report, Fail
<1>6. CASE Scan \/ Spool \/ ScanDone \/ Save \/ Flush \/ Delivered \/ GiveUp \/ Hold \/ KeepOnly
  BY <1>3, <1>6 DEF Scan, Spool, ScanDone, Save, Flush, Delivered, GiveUp, Hold, KeepOnly
<1>7. CASE SuspendFeed \/ ReactivateFeed \/ SaveFails \/ LinkDown \/ Crash \/ ServerDies
  BY <1>3, <1>7 DEF SuspendFeed, ReactivateFeed, SaveFails, LinkDown, Crash, ServerDies
<1> QED BY <1>1, <1>2, <1>3, <1>4, <1>5, <1>6, <1>7 DEF EdgeNext, AgentStep

LEMMA TableStep == ASSUME EdgeTypes, EdgeNext PROVE TableTypes'
<1> USE DEF EdgeTypes
<1>b. MaxCrashes \in Nat /\ MaxFaults \in Nat
  BY BoundsAssumption
<1>s. ASSUME UNCHANGED <<active, tables, history, count>> PROVE TableTypes'
  BY <1>s DEF TableTypes, tables, history
<1>f. ASSUME Fault, UNCHANGED <<active, tables, history>> PROVE TableTypes'
  BY <1>f, <1>b DEF TableTypes, tables, history, Fault
<1>1. ASSUME NEW n \in Names, Recognize(n) PROVE TableTypes'
  <2>1. n \in agent.todo /\ watch[n] > 0
    BY <1>1 DEF Recognize, AgentTypes
  <2>2. <<n, watch[n]>> \in Frames
    BY <2>1 DEF Frames, CameraTypes
  <2>3. readings' = [readings EXCEPT ![<<n, watch[n]>>] = @ + 1] /\ UNCHANGED <<active, tables, givenUp, count>>
    BY <1>1 DEF Recognize
  <2> QED BY <2>2, <2>3 DEF TableTypes, tables
<1>2. CASE SuspendFeed \/ ReactivateFeed
  <2>1. active' \in BOOLEAN
    BY <1>2 DEF SuspendFeed, ReactivateFeed
  <2>2. count' = count \/ count' = [count EXCEPT !.suspension = @ + 1]
    BY <1>2 DEF SuspendFeed, ReactivateFeed
  <2>3. UNCHANGED <<tables, history>>
    BY <1>2 DEF SuspendFeed, ReactivateFeed
  <2>4. count' \in [crash : 0 .. MaxCrashes, fault : 0 .. MaxFaults, suspension : Nat]
    BY <2>2 DEF TableTypes
  <2> QED BY <2>1, <2>3, <2>4 DEF TableTypes, tables, history
<1>3. CASE GiveUp
  <2>1. givenUp' = givenUp \cup Elements(Batch) /\ UNCHANGED <<active, tables, readings, count>>
    BY <1>3 DEF GiveUp
  <2>2. Elements(Batch) \subseteq Reads
    <3>1. Batch \in Seq(Reads)
      BY BoundsAssumption DEF Batch, AgentTypes, Agent
    <3> QED BY <3>1 DEF Elements
  <2> QED BY <2>1, <2>2 DEF TableTypes, tables
<1>4. CASE Crash
  BY <1>4, <1>b DEF Crash, TableTypes, tables, history
<1>5. ASSUME NEW c \in Calls, Accept(c) PROVE TableTypes'
  <2>1. Item(c) \in Reads
    <3>1. call[c] \in Request
      BY DEF HandlerTypes
    <3>2. call[c].next + 1 \in 1 .. Len(call[c].batch)
      BY <1>5, <3>1 DEF Accept, MoreItems, Request
    <3> QED BY <3>1, <3>2 DEF Item, Request
  <2> QED BY <1>5, <2>1 DEF Accept, TableTypes, history
<1>6. ASSUME NEW c \in Calls, Audit(c) PROVE TableTypes'
  <2>1. ASSUME NEW r \in Reads PROVE Occurrences(r, call[c].accepted) \in Nat
    <3> DEFINE s == call[c].accepted
               places == {i \in DOMAIN s : s[i] = r}
    <3>1. s \in Seq(Reads)
      BY DEF HandlerTypes, Request
    <3>2. DOMAIN s = 1 .. Len(s) /\ Len(s) \in Nat
      BY <3>1
    <3>3. IsFiniteSet(places)
      BY <3>2, FS_Interval, FS_Subset, places \subseteq 1 .. Len(s), 1 \in Int, Len(s) \in Int
    <3> QED BY <3>3, FS_CardinalityType DEF Occurrences
  <2> QED BY <1>6, <2>1 DEF Audit, TableTypes, history
<1>7. ASSUME NEW c \in Calls, Report(c) PROVE TableTypes'
  <2>1. call[c].rejected \subseteq Malformed
    BY DEF HandlerTypes, Request
  <2> QED BY <1>7, <2>1 DEF Report, RejectedItems, TableTypes, history
<1>8. ASSUME NEW c \in Calls, Send(c) \/ Authenticate(c) \/ Reject(c) PROVE TableTypes'
  BY <1>8, <1>s DEF Send, Authenticate, Reject
<1>9. ASSUME NEW c \in Calls, Fail(c) PROVE TableTypes'
  BY <1>9, <1>f DEF Fail
<1>10. ASSUME NEW n \in Names, Skip(n) \/ Shoot(n) PROVE TableTypes'
  BY <1>10, <1>s DEF Skip, Shoot
<1>11. CASE Mark
  BY <1>11, <1>s, <1>f DEF Mark
<1>12. CASE Scan \/ Spool \/ ScanDone \/ Save \/ Flush \/ Delivered \/ Hold \/ KeepOnly
  BY <1>12, <1>s DEF Scan, Spool, ScanDone, Save, Flush, Delivered, Hold, KeepOnly
<1>13. CASE SaveFails \/ LinkDown \/ ServerDies
  BY <1>13, <1>f DEF SaveFails, LinkDown, ServerDies
<1> QED BY <1>1, <1>2, <1>3, <1>4, <1>5, <1>6, <1>7, <1>8, <1>9, <1>10, <1>11, <1>12, <1>13 DEF EdgeNext, AgentStep, Serve

\* A handler's answer reaches the agent that waits for it, or no one.
LEMMA ReplyType ==
    ASSUME HandlerTypes, NEW c \in Calls, NEW answer \in {"201", "400", "401", "413", "500"}
    PROVE  Reply(c, answer) \in Request
<1>1. call[c] \in Request
  BY DEF HandlerTypes
<1>2. [call[c] EXCEPT !.pc = "answered", !.answer = answer] \in Request
  BY <1>1 DEF Request, RequestPcs
<1> QED BY <1>2, StartedType DEF Reply

\* The item a handler is at is one of its batch, and the next one begins after it.
LEMMA AtItem ==
    ASSUME HandlerTypes, NEW c \in Calls, MoreItems(c)
    PROVE  /\ call[c] \in Request
           /\ call[c].next + 1 \in 1 .. Len(call[c].batch)
           /\ Item(c) \in Elements(call[c].batch) /\ Item(c) \in Reads
<1>1. call[c] \in Request
  BY DEF HandlerTypes
<1>2. call[c].batch \in Seq(Reads) /\ call[c].next \in Nat /\ call[c].next < Len(call[c].batch)
  BY <1>1 DEF MoreItems, Request
<1>3. call[c].next + 1 \in 1 .. Len(call[c].batch)
  BY <1>2
<1>4. Item(c) \in Elements(call[c].batch) /\ Item(c) \in Reads
  BY <1>2, <1>3 DEF Item, Elements
<1> QED BY <1>1, <1>3, <1>4

LEMMA BatchTypes ==
    ASSUME AgentTypes
    PROVE  Batch \in Seq(Reads) /\ Rest \in Seq(Reads) /\ Elements(Batch) \subseteq Reads
<1>1. agent.pending \in Seq(Reads) /\ Len(agent.pending) \in Nat /\ BatchSize \in Nat \ {0}
  BY BoundsAssumption DEF AgentTypes, Agent
<1>2. Batch \in Seq(Reads) /\ Rest \in Seq(Reads)
  BY <1>1 DEF Batch, Rest
<1> QED BY <1>2 DEF Elements

LEMMA HandlerStep == ASSUME EdgeTypes, EdgeNext PROVE HandlerTypes'
<1> USE DEF EdgeTypes
<1>u. ASSUME NEW c \in Calls, NEW h \in Request, call' = [call EXCEPT ![c] = h] PROVE HandlerTypes'
  BY <1>u DEF HandlerTypes
<1>1. ASSUME NEW c \in Calls, Send(c) PROVE HandlerTypes'
  <2>1. Elements(<<>>) = {} /\ <<>> \in Seq(Reads)
    BY DEF Elements
  <2>2. PICK f \in Request : f = Free
    BY StartedType
  <2>3. PICK h : h = [f EXCEPT !.pc = "authenticate", !.batch = Batch]
    OBVIOUS
  <2>4. f.next = 0 /\ f.accepted = <<>> /\ f.rejected = {} /\ f.answer = "none"
    BY <2>2 DEF Free
  <2>5. h = [pc |-> "authenticate", batch |-> Batch, next |-> 0, accepted |-> <<>>, rejected |-> {},
             answer |-> "none"]
    BY <2>3, <2>4 DEF Request
  <2>6. Batch \in Seq(Reads) /\ 0 <= Len(Batch)
    BY BatchTypes
  <2>7. h \in Request
    BY <2>1, <2>5, <2>6 DEF Request, RequestPcs
  <2>8. call' = [call EXCEPT ![c] = h]
    BY <1>1, <2>2, <2>3 DEF Send
  <2> QED BY <1>u, <2>7, <2>8
<1>2. ASSUME NEW c \in Calls, Authenticate(c) PROVE HandlerTypes'
  <2>1. PICK h : h = CASE ~active -> Reply(c, "401")
                         [] active /\ Len(call[c].batch) > MaxBatch -> Reply(c, "413")
                         [] OTHER -> [call[c] EXCEPT !.pc = "items"]
    OBVIOUS
  <2>2. [call[c] EXCEPT !.pc = "items"] \in Request
    BY DEF HandlerTypes, Request, RequestPcs
  <2>3. Reply(c, "401") \in Request /\ Reply(c, "413") \in Request
    BY ReplyType
  <2>4. h \in Request
    BY <2>1, <2>2, <2>3
  <2>5. call' = [call EXCEPT ![c] = h]
    BY <1>2, <2>1 DEF Authenticate
  <2> QED BY <1>u, <2>4, <2>5
<1>3. ASSUME NEW c \in Calls, Accept(c) PROVE HandlerTypes'
  <2>1. call[c] \in Request /\ Item(c) \in Elements(call[c].batch) /\ Item(c) \in Reads
        /\ call[c].next + 1 \in 1 .. Len(call[c].batch)
    BY <1>3, AtItem DEF Accept
  <2>2. PICK a : a = Append(call[c].accepted, Item(c))
    OBVIOUS
  <2>3. a \in Seq(Reads) /\ Elements(a) = Elements(call[c].accepted) \cup {Item(c)}
    BY <2>1, <2>2, SpooledElements DEF Request
  <2>4. call' = [call EXCEPT ![c] = [call[c] EXCEPT !.next = @ + 1, !.accepted = a]]
    BY <1>3, <2>2 DEF Accept, HandlerTypes
  <2>5. PICK h : h = [call[c] EXCEPT !.next = @ + 1, !.accepted = a]
    OBVIOUS
  <2>6. h = [pc |-> call[c].pc, batch |-> call[c].batch, next |-> call[c].next + 1, accepted |-> a,
             rejected |-> call[c].rejected, answer |-> call[c].answer]
    BY <2>1, <2>5 DEF Request
  <2>7. h \in Request
    BY <2>1, <2>3, <2>6 DEF Request
  <2> QED BY <1>u, <2>4, <2>5, <2>7
<1>4. ASSUME NEW c \in Calls, Reject(c) PROVE HandlerTypes'
  <2>1. call[c] \in Request /\ Item(c) \in Elements(call[c].batch) /\ Item(c) \in Reads
        /\ call[c].next + 1 \in 1 .. Len(call[c].batch) /\ Item(c) \in Malformed
    BY <1>4, AtItem DEF Reject
  <2>2. PICK s : s = call[c].rejected \cup {Item(c)}
    OBVIOUS
  <2>3. call' = [call EXCEPT ![c] = [call[c] EXCEPT !.next = @ + 1, !.rejected = s]]
    BY <1>4, <2>2 DEF Reject, HandlerTypes
  <2>4. PICK h : h = [call[c] EXCEPT !.next = @ + 1, !.rejected = s]
    OBVIOUS
  <2>5. h = [pc |-> call[c].pc, batch |-> call[c].batch, next |-> call[c].next + 1,
             accepted |-> call[c].accepted, rejected |-> s, answer |-> call[c].answer]
    BY <2>1, <2>4 DEF Request
  <2>6. h \in Request
    BY <2>1, <2>2, <2>5 DEF Request
  <2> QED BY <1>u, <2>3, <2>4, <2>6
<1>5. ASSUME NEW c \in Calls, Audit(c) PROVE HandlerTypes'
  <2>1. call' = [call EXCEPT ![c] = [call[c] EXCEPT !.pc = "report"]]
    BY <1>5 DEF Audit
  <2>2. [call[c] EXCEPT !.pc = "report"] \in Request
    BY DEF HandlerTypes, Request, RequestPcs
  <2> QED BY <1>u, <2>1, <2>2
<1>6. ASSUME NEW c \in Calls, Report(c) \/ Fail(c) PROVE HandlerTypes'
  <2>1. \E answer \in {"201", "400", "500"} : call' = [call EXCEPT ![c] = Reply(c, answer)]
    BY <1>6 DEF Report, Fail
  <2> QED BY <1>u, <2>1, ReplyType
<1>7. CASE \/ Delivered \/ GiveUp \/ Hold \/ LinkDown \/ Crash
  <2>1. call' = call \/ (call' = [call EXCEPT ![agent.call] = Free] /\ agent.call \in Calls)
    BY <1>7 DEF Delivered, GiveUp, Hold, LinkDown, Crash, Answered, AgentTypes, Agent
  <2> QED BY <1>u, <2>1, StartedType DEF HandlerTypes
<1>8. CASE ServerDies
  BY <1>8, StartedType DEF ServerDies, HandlerTypes
<1>9. CASE UNCHANGED call
  BY <1>9 DEF HandlerTypes
<1>10. ASSUME NEW n \in Names, Skip(n) \/ Recognize(n) \/ Shoot(n) PROVE UNCHANGED call
  BY <1>10 DEF Skip, Recognize, Shoot
<1>11. CASE Scan \/ Spool \/ Mark \/ ScanDone \/ Save \/ Flush \/ KeepOnly
  BY <1>9, <1>11 DEF Scan, Spool, Mark, ScanDone, Save, Flush, KeepOnly
<1>12. CASE SuspendFeed \/ ReactivateFeed \/ SaveFails
  BY <1>9, <1>12 DEF SuspendFeed, ReactivateFeed, SaveFails
<1> QED BY <1>1, <1>2, <1>3, <1>4, <1>5, <1>6, <1>7, <1>8, <1>9, <1>10, <1>11, <1>12 DEF EdgeNext, AgentStep, Serve

LEMMA AgentStepType == ASSUME EdgeTypes, AgentStep PROVE AgentTypes'
<1> USE DEF EdgeTypes
<1>e. <<>> \in Seq(Reads)
  OBVIOUS
<1>1. CASE Scan
  <2>1. PICK s \in Agent : s = Started
    BY StartedType
  <2>2. PICK t \in SUBSET Names : t = {n \in Names : watch[n] > 0}
    OBVIOUS
  <2>3. agent' = [s EXCEPT !.pc = "frame", !.todo = t] /\ UNCHANGED <<watch, saved, processed, spool>>
    BY <1>1, <2>1, <2>2 DEF Scan, files
  <2>4. s.frame = NoFrame /\ s.unread = <<>> /\ s.call = NoCall
    BY <2>1 DEF Started
  <2>5. /\ agent' \in Agent /\ agent'.pc = "frame" /\ agent'.todo = t
        /\ agent'.frame = NoFrame /\ agent'.unread = <<>> /\ agent'.call = NoCall
    BY <2>3, <2>4 DEF Agent, AgentPcs
  <2> QED BY <2>2, <2>3, <2>5 DEF AgentTypes
<1>2. ASSUME NEW n \in Names, Skip(n) PROVE AgentTypes'
  <2>1. agent.pc = "frame" /\ agent' = [agent EXCEPT !.todo = @ \ {n}] /\ UNCHANGED <<watch, saved, processed, spool>>
    BY <1>2 DEF Skip, files
  <2>2. /\ agent' \in Agent /\ agent'.pc = "frame" /\ agent'.todo \subseteq agent.todo
        /\ agent'.frame = agent.frame /\ agent'.unread = agent.unread /\ agent'.call = agent.call
    BY <2>1 DEF AgentTypes, Agent
  <2> QED BY <2>1, <2>2 DEF AgentTypes
<1>3. ASSUME NEW n \in Names, Recognize(n) PROVE AgentTypes'
  <2>1. PICK s : s = [i \in 1 .. ReadsIn[n] |-> <<n, watch[n], i>>]
    OBVIOUS
  <2>2. PICK f : f = <<n, watch[n]>>
    OBVIOUS
  <2>3. n \in agent.todo /\ watch[n] \in 1 .. MaxVersion
    <3>1. n \in agent.todo /\ watch[n] > 0 /\ watch[n] \in 0 .. MaxVersion
      BY <1>3 DEF Recognize, AgentTypes, CameraTypes
    <3> QED BY <3>1, BoundsAssumption
  <2>4. s \in Seq(Reads) /\ f \in Frames
    BY <2>1, <2>2, <2>3, RecognizedElements DEF Frames
  <2>5. /\ agent.pc = "frame" /\ UNCHANGED <<watch, saved, processed, spool>>
        /\ agent' = [agent EXCEPT !.pc = "spool", !.frame = f, !.new = TRUE, !.unread = s]
    BY <1>3, <2>1, <2>2 DEF Recognize, files
  <2>6. /\ agent' \in Agent /\ agent'.pc = "spool" /\ agent'.todo = agent.todo
        /\ agent'.frame = f /\ agent'.call = agent.call
    BY <2>4, <2>5 DEF AgentTypes, Agent, AgentPcs
  <2>7. f[1] = n
    BY <2>2
  <2> QED BY <2>3, <2>4, <2>5, <2>6, <2>7 DEF AgentTypes
<1>4. CASE Spool
  <2>1. agent.unread \in Seq(Reads) /\ agent.unread # <<>> /\ spool \in Seq(Reads)
    BY <1>4 DEF Spool, AgentTypes, Agent
  <2>2. Head(agent.unread) \in Reads /\ Tail(agent.unread) \in Seq(Reads)
    BY <2>1, TakenElements
  <2>3. spool' \in Seq(Reads)
    BY <1>4, <2>1, <2>2, SpooledElements DEF Spool, Appended
  <2>4. agent.pc = "spool" /\ agent' = [agent EXCEPT !.unread = Tail(@)] /\ UNCHANGED <<watch, saved, processed>>
    BY <1>4 DEF Spool
  <2>5. /\ agent' \in Agent /\ agent'.pc = "spool" /\ agent'.todo = agent.todo
        /\ agent'.frame = agent.frame /\ agent'.call = agent.call
    BY <2>2, <2>4 DEF AgentTypes, Agent
  <2> QED BY <2>3, <2>4, <2>5 DEF AgentTypes
<1>5. CASE Mark
  <2>1. PICK n \in Names : n = agent.frame[1] /\ n \in agent.todo
    BY <1>5 DEF Mark, AgentTypes, Agent
  <2>2. /\ agent.pc = "spool" /\ agent.unread = <<>> /\ UNCHANGED <<saved, spool>>
        /\ processed' = processed \cup {<<n, watch[n]>>}
        /\ watch' = watch \/ watch' = [watch EXCEPT ![n] = Removed(n)]
        /\ agent' = [agent EXCEPT !.pc = "frame", !.frame = NoFrame, !.todo = @ \ {n}]
    BY <1>5, <2>1 DEF Mark, files
  <2>3. watch[n] \in 1 .. MaxVersion
    <3>1. watch[n] > 0 /\ watch[n] \in 0 .. MaxVersion
      BY <2>1 DEF AgentTypes, CameraTypes
    <3> QED BY <3>1, BoundsAssumption
  <2>4. processed' \subseteq Frames
    BY <2>2, <2>3 DEF AgentTypes, Frames
  <2>5. /\ agent' \in Agent /\ agent'.pc = "frame" /\ agent'.todo = agent.todo \ {n}
        /\ agent'.frame = NoFrame /\ agent'.unread = <<>> /\ agent'.call = agent.call
    BY <2>2 DEF AgentTypes, Agent, AgentPcs
  <2>6. \A m \in agent'.todo : watch'[m] = watch[m]
    BY <2>2, <2>5 DEF CameraTypes, AgentTypes, Agent
  <2> QED BY <2>2, <2>4, <2>5, <2>6 DEF AgentTypes
<1>6. CASE ScanDone \/ Save \/ Flush
  <2>1. PICK p \in {"save", "flush", "scan", "send"} :
          /\ agent.pc \in {"frame", "save", "flush"}
          /\ agent' \in {[agent EXCEPT !.pc = p], [agent EXCEPT !.pc = p, !.pending = spool]}
          /\ UNCHANGED <<watch, spool>>
          /\ processed' \subseteq processed /\ saved' \in {saved, processed'}
    BY <1>6 DEF ScanDone, Save, Flush, AfterScan, files
  <2>2. spool \in Seq(Reads)
    BY DEF AgentTypes
  <2>3. /\ agent' \in Agent /\ agent'.pc = p /\ agent'.todo = agent.todo
        /\ agent'.frame = agent.frame /\ agent'.unread = agent.unread /\ agent'.call = agent.call
    BY <2>1, <2>2 DEF AgentTypes, Agent, AgentPcs
  <2>4. processed' \subseteq Frames /\ saved' \subseteq Frames
    BY <2>1 DEF AgentTypes
  <2> QED BY <2>1, <2>3, <2>4 DEF AgentTypes
<1>7. ASSUME NEW c \in Calls, Send(c) PROVE AgentTypes'
  <2>1. /\ agent.pc = "send" /\ UNCHANGED <<watch, saved, processed, spool>>
        /\ agent' = [agent EXCEPT !.pc = "wait", !.call = c, !.rest = Rest]
    BY <1>7 DEF Send, files
  <2>2. Rest \in Seq(Reads)
    BY BatchTypes
  <2>3. /\ agent' \in Agent /\ agent'.pc = "wait" /\ agent'.todo = agent.todo
        /\ agent'.frame = agent.frame /\ agent'.unread = agent.unread /\ agent'.call = c
    BY <2>1, <2>2 DEF AgentTypes, Agent, AgentPcs
  <2>4. c # NoCall
    BY EdgeNamesAssumption
  <2> QED BY <2>1, <2>3, <2>4 DEF AgentTypes
<1>8. CASE Delivered \/ GiveUp \/ Hold
  <2>1. PICK p \in {"send", "keep"}, s \in {agent.rest, agent.pending} :
          /\ agent.pc = "wait" /\ UNCHANGED <<watch, saved, processed, spool>>
          /\ agent' = [agent EXCEPT !.pc = p, !.call = NoCall, !.pending = s]
    BY <1>8 DEF Delivered, GiveUp, Hold, Held, Answered, files
  <2>2. s \in Seq(Reads)
    BY DEF AgentTypes, Agent
  <2>3. /\ agent' \in Agent /\ agent'.pc = p /\ agent'.todo = agent.todo
        /\ agent'.frame = agent.frame /\ agent'.unread = agent.unread /\ agent'.call = NoCall
    BY <2>1, <2>2 DEF AgentTypes, Agent, AgentPcs
  <2> QED BY <2>1, <2>3 DEF AgentTypes
<1>9. CASE KeepOnly
  <2>1. agent' = Started /\ spool' = agent.pending /\ UNCHANGED <<watch, saved, processed>>
    BY <1>9 DEF KeepOnly, Remaining
  <2>2. agent'.todo = {} /\ agent'.pc = "scan" /\ agent'.frame = NoFrame /\ agent'.unread = <<>> /\ agent'.call = NoCall
    BY <2>1 DEF Started
  <2>3. agent' \in Agent /\ spool' \in Seq(Reads)
    BY <2>1, StartedType DEF AgentTypes, Agent
  <2> QED BY <2>1, <2>2, <2>3 DEF AgentTypes
<1> QED BY <1>1, <1>2, <1>3, <1>4, <1>5, <1>6, <1>7, <1>8, <1>9 DEF AgentStep

LEMMA OtherStepType == ASSUME EdgeTypes, EdgeNext, ~AgentStep PROVE AgentTypes'
<1> USE DEF EdgeTypes
<1>1. CASE UNCHANGED <<agent, processed, saved, spool, watch>>
  BY <1>1 DEF AgentTypes
<1>2. ASSUME NEW n \in Names, Shoot(n) PROVE AgentTypes'
  <2>1. watch' = [watch EXCEPT ![n] = shot[n] + 1] /\ UNCHANGED <<agent, processed, saved, spool>>
    BY <1>2 DEF Shoot, files
  <2>2. \A m \in agent.todo : watch'[m] > 0
    BY <2>1 DEF AgentTypes, CameraTypes, Agent
  <2> QED BY <2>1, <2>2 DEF AgentTypes
<1>3. CASE SaveFails
  <2>1. /\ agent.pc = "save" /\ processed' \subseteq processed /\ UNCHANGED <<watch, saved, spool>>
        /\ agent' = [agent EXCEPT !.pc = "flush"]
    BY <1>3 DEF SaveFails, files
  <2>2. /\ agent' \in Agent /\ agent'.pc = "flush" /\ agent'.todo = agent.todo
        /\ agent'.frame = agent.frame /\ agent'.unread = agent.unread /\ agent'.call = agent.call
    BY <2>1 DEF AgentTypes, Agent, AgentPcs
  <2> QED BY <2>1, <2>2 DEF AgentTypes
<1>4. CASE LinkDown
  <2>1. /\ agent.pc \in {"send", "wait"} /\ UNCHANGED <<watch, saved, processed, spool>>
        /\ agent' = [agent EXCEPT !.pc = "keep", !.call = NoCall, !.pending = agent.pending]
    BY <1>4 DEF LinkDown, Held, files
  <2>2. /\ agent' \in Agent /\ agent'.pc = "keep" /\ agent'.todo = agent.todo
        /\ agent'.frame = agent.frame /\ agent'.unread = agent.unread /\ agent'.call = NoCall
    BY <2>1 DEF AgentTypes, Agent, AgentPcs
  <2> QED BY <2>1, <2>2 DEF AgentTypes
<1>5. CASE Crash
  <2>1. agent' = Started /\ processed' = saved /\ UNCHANGED <<watch, saved, spool>>
    BY <1>5 DEF Crash, files
  <2>2. agent'.todo = {} /\ agent'.pc = "scan" /\ agent'.frame = NoFrame /\ agent'.unread = <<>> /\ agent'.call = NoCall
    BY <2>1 DEF Started
  <2> QED BY <2>1, <2>2, StartedType DEF AgentTypes
<1>6. ASSUME NEW c \in Calls, Serve(c) \/ Fail(c) PROVE AgentTypes'
  BY <1>1, <1>6 DEF Serve, Authenticate, Accept, Reject, Audit, Report, Fail, files
<1>7. CASE SuspendFeed \/ ReactivateFeed \/ ServerDies
  BY <1>1, <1>7 DEF SuspendFeed, ReactivateFeed, ServerDies, files
<1> QED BY <1>2, <1>3, <1>4, <1>5, <1>6, <1>7 DEF EdgeNext

LEMMA EdgeTypesStep == EdgeTypes /\ [EdgeNext]_edgeVars => EdgeTypes'
<1>1. EdgeTypes /\ EdgeNext => EdgeTypes'
  BY CameraStep, TableStep, HandlerStep, AgentStepType, OtherStepType DEF EdgeTypes
<1>2. EdgeTypes /\ UNCHANGED edgeVars => EdgeTypes'
  BY DEF EdgeTypes, CameraTypes, AgentTypes, HandlerTypes, TableTypes, edgeVars, files, tables, history
<1> QED BY <1>1, <1>2

\* The type invariant of the run.
LEMMA TypesAreTypeOK == EdgeTypes => EdgeTypeOK
<1> SUFFICES ASSUME EdgeTypes PROVE EdgeTypeOK
  OBVIOUS
<1>1. \A s \in {spool, agent.unread, agent.pending, agent.rest} : Elements(s) \subseteq Reads
  <2>1. \A s \in Seq(Reads) : Elements(s) \subseteq Reads
    BY DEF Elements
  <2>2. {spool, agent.unread, agent.pending, agent.rest} \subseteq Seq(Reads)
    BY DEF EdgeTypes, AgentTypes, Agent
  <2> QED BY <2>1, <2>2
<1>2. ASSUME NEW c \in Calls
      PROVE  /\ call[c].pc \in {"free", "authenticate", "items", "report", "answered"}
             /\ call[c].next \in 0 .. Len(call[c].batch)
             /\ Elements(call[c].accepted) \subseteq Elements(call[c].batch)
             /\ call[c].rejected \subseteq Elements(call[c].batch) \cap Malformed
  <2>1. call[c] \in Request
    BY DEF EdgeTypes, HandlerTypes
  <2>2. call[c].next \in Nat /\ call[c].next <= Len(call[c].batch) /\ Len(call[c].batch) \in Nat
    BY <2>1 DEF Request
  <2> QED BY <2>1, <2>2 DEF Request, RequestPcs
<1>3. /\ agent.pc \in AgentPcs /\ agent.todo \subseteq Names /\ agent.frame \in Frames \cup {NoFrame}
      /\ agent.call \in Calls \cup {NoCall}
  BY DEF EdgeTypes, AgentTypes, Agent
<1>4. count.crash \in 0 .. MaxCrashes /\ count.fault \in 0 .. MaxFaults
  BY DEF EdgeTypes, TableTypes
<1> QED BY <1>1, <1>2, <1>3, <1>4 DEF EdgeTypes, CameraTypes, AgentTypes, TableTypes, EdgeTypeOK, AgentPcs

----------------------------------------------------------------------------
(***************************************************************************)
(* NothingLost, for files the camera wrote once.  A read of a frame that is *)
(* handled is accounted for on every step of its way: with the recognizer,  *)
(* in the spool, in what a flush took from it, in the handler.              *)
(***************************************************************************)
Settled(r) == r \in refused \cup givenUp \/ stored[r] > 0
Safe(r) == r \in Elements(spool) \/ Settled(r)

WrittenOnce(f) == shot[f[1]] <= 1

\* Each read of the frame in the agent's hands is still to spool, or safe; and the
\* frame is the file that is there, unless that was written again.
FrameInHand ==
    agent.pc = "spool" =>
        /\ WrittenOnce(agent.frame) => agent.frame[2] = watch[agent.frame[1]]
        /\ \A r \in ReadsOf(agent.frame) : r \in Elements(agent.unread) \/ Safe(r)

\* What a flush took from the spool is pending, or settled.
FlushKeeps ==
    agent.pc \in {"send", "wait", "keep"} =>
        \A r \in Elements(spool) : r \in Elements(agent.pending) \/ Settled(r)

\* The handler the agent waits for has the agent's batch.
WaitsForBatch ==
    agent.pc = "wait" =>
        /\ agent.rest = Rest
        /\ call[agent.call].pc # "free" => call[agent.call].batch = Batch

\* What a handler has passed is stored, or in the entry it writes at the end; and
\* so "201" tells the agent that all of its batch is settled.
Passed(h) == \A i \in 1 .. h.next : stored[h.batch[i]] > 0 \/ h.batch[i] \in h.rejected
RequestKeeps(h) ==
    /\ h.pc \in {"items", "report"} => Passed(h)
    /\ h.pc = "authenticate" => h.next = 0
    /\ h.pc = "report" => h.next = Len(h.batch)
    /\ h.pc = "answered" /\ h.answer = "201" => \A r \in Elements(h.batch) : Settled(r)
HandlersKeep == \A c \in Calls : RequestKeeps(call[c])

QueuesKeep == FlushKeeps /\ WaitsForBatch /\ HandlersKeep

\* NothingLost file by file: other files may be written as often as the camera likes.
FilesKept == \A f \in Frames : WrittenOnce(f) /\ Handled(f) => \A r \in ReadsOf(f) : Safe(r)

LEMMA PendingIsSplit ==
    ASSUME AgentTypes
    PROVE  /\ Elements(agent.pending) = Elements(Batch) \cup Elements(Rest)
           /\ Injective(agent.pending) =>
                Injective(Batch) /\ Injective(Rest) /\ Elements(Batch) \cap Elements(Rest) = {}
<1> DEFINE s == agent.pending
           k == IF Len(s) < BatchSize THEN Len(s) ELSE BatchSize
<1>1. s \in Seq(Reads) /\ Len(s) \in Nat /\ BatchSize \in Nat \ {0}
  BY BoundsAssumption DEF AgentTypes, Agent
<1>2. k \in Nat /\ k <= Len(s)
  BY <1>1
<1>3. Batch = SubSeq(s, 1, k)
  BY DEF Batch
<1>4. Rest = SubSeq(s, k + 1, Len(s))
  <2>1. CASE Len(s) < BatchSize
    <3>1. k + 1 > Len(s) /\ BatchSize + 1 > Len(s)
      BY <1>1, <2>1
    <3>2. SubSeq(s, k + 1, Len(s)) = <<>> /\ SubSeq(s, BatchSize + 1, Len(s)) = <<>>
      <4>1. k + 1 \in Int /\ BatchSize + 1 \in Int /\ Len(s) \in Int
        BY <1>1, <1>2
      <4> HIDE DEF k
      <4> QED BY <3>1, <4>1, SubSeqEmpty
    <3> QED BY <3>2 DEF Rest
  <2>2. CASE ~(Len(s) < BatchSize)
    BY <2>2 DEF Rest
  <2> QED BY <2>1, <2>2
<1>q. PICK b, t : b = Batch /\ t = Rest
  OBVIOUS
<1> HIDE DEF s, k
<1>5. /\ Elements(s) = Elements(Batch) \cup Elements(Rest)
      /\ Injective(s) => Injective(Batch) /\ Injective(Rest) /\ Elements(Batch) \cap Elements(Rest) = {}
  <2>1. b = SubSeq(s, 1, k) /\ t = SubSeq(s, k + 1, Len(s))
    BY <1>3, <1>4, <1>q
  <2>2. s \in Seq(Reads) /\ k \in Nat /\ k <= Len(s)
    BY <1>1, <1>2
  <2>3. IsSplit(s, b, t)
    BY <2>1, <2>2, SplitElements
  <2> QED BY <1>q, <2>3 DEF IsSplit
<1> QED BY <1>5 DEF s

\* A row stays, and so does an entry.
LEMMA SettledStays ==
    ASSUME EdgeTypes, EdgeNext
    PROVE  /\ \A r \in Reads : stored[r] <= stored'[r]
           /\ refused \subseteq refused' /\ givenUp \subseteq givenUp'
           /\ \A r \in Reads : Settled(r) => Settled(r)'
<1>0. stored \in [Reads -> Nat]
  BY DEF EdgeTypes, TableTypes
<1>1. ASSUME NEW c \in Calls, Accept(c)
      PROVE  (\A r \in Reads : stored[r] <= stored'[r]) /\ UNCHANGED <<refused, givenUp>>
  BY <1>0, <1>1 DEF Accept, history
<1>2. ASSUME NEW c \in Calls, Report(c)
      PROVE  stored' = stored /\ refused \subseteq refused' /\ givenUp' = givenUp
  BY <1>2 DEF Report, history
<1>3. ASSUME GiveUp PROVE UNCHANGED <<stored, refused>> /\ givenUp \subseteq givenUp'
  BY <1>3 DEF GiveUp, tables
<1>4. ASSUME NEW c \in Calls, Send(c) \/ Authenticate(c) \/ Reject(c) \/ Audit(c) \/ Fail(c)
      PROVE  UNCHANGED <<stored, refused, givenUp>>
  BY <1>4 DEF Send, Authenticate, Reject, Audit, Fail, tables, history
<1>5. ASSUME NEW n \in Names, Skip(n) \/ Recognize(n) \/ Shoot(n)
      PROVE  UNCHANGED <<stored, refused, givenUp>>
  BY <1>5 DEF Skip, Recognize, Shoot, tables, history
<1>6. ASSUME Scan \/ Spool \/ Mark \/ ScanDone \/ Save \/ Flush \/ Delivered \/ Hold \/ KeepOnly
      PROVE  UNCHANGED <<stored, refused, givenUp>>
  BY <1>6 DEF Scan, Spool, Mark, ScanDone, Save, Flush, Delivered, Hold, KeepOnly, tables, history
<1>7. ASSUME SuspendFeed \/ ReactivateFeed \/ SaveFails \/ LinkDown \/ Crash \/ ServerDies
      PROVE  UNCHANGED <<stored, refused, givenUp>>
  BY <1>7 DEF SuspendFeed, ReactivateFeed, SaveFails, LinkDown, Crash, ServerDies, tables, history
<1>8. (\A r \in Reads : stored[r] <= stored'[r]) /\ refused \subseteq refused' /\ givenUp \subseteq givenUp'
  BY <1>0, <1>1, <1>2, <1>3, <1>4, <1>5, <1>6, <1>7 DEF EdgeNext, AgentStep, Serve
<1>9. stored' \in [Reads -> Nat]
  BY TableStep DEF TableTypes
<1> QED BY <1>0, <1>8, <1>9 DEF Settled

LEMMA InitKeeps == EdgeInit => FrameInHand /\ QueuesKeep /\ FilesKept
<1> SUFFICES ASSUME EdgeInit PROVE FrameInHand /\ QueuesKeep /\ FilesKept
  OBVIOUS
<1>1. agent.pc = "scan"
  BY DEF EdgeInit, Started
<1>2. \A c \in Calls : call[c].pc = "free"
  BY DEF EdgeInit, Free
<1>3. ASSUME NEW f \in Frames PROVE ~Handled(f)
  <2>1. f[1] \in Names /\ f[2] \in 1 .. MaxVersion /\ MaxVersion \in Nat
    BY BoundsAssumption DEF Frames
  <2> QED BY <2>1 DEF EdgeInit, Handled
<1> QED BY <1>1, <1>2, <1>3 DEF FrameInHand, QueuesKeep, FlushKeeps, WaitsForBatch, HandlersKeep, RequestKeeps, FilesKept

LEMMA ReplyFields ==
    ASSUME HandlerTypes, NEW c \in Calls, NEW answer \in {"201", "400", "401", "413", "500"},
           NEW h, h = Reply(c, answer)
    PROVE  /\ h \in Request
           /\ \/ h.pc = "free"
              \/ /\ agent.pc = "wait" /\ agent.call = c
                 /\ h.pc = "answered" /\ h.answer = answer /\ h.batch = call[c].batch
<1>1. h \in Request
  BY ReplyType
<1>2. CASE Listening(c)
  <2>1. call[c] \in Request
    BY DEF HandlerTypes
  <2>2. h = [call[c] EXCEPT !.pc = "answered", !.answer = answer]
    BY <1>2 DEF Reply
  <2>3. h.pc = "answered" /\ h.answer = answer /\ h.batch = call[c].batch
    BY <2>1, <2>2 DEF Request
  <2> QED BY <1>1, <1>2, <2>3 DEF Listening
<1>3. CASE ~Listening(c)
  <2>1. h = Free
    BY <1>3 DEF Reply
  <2>2. h.pc = "free"
    BY <2>1 DEF Free
  <2> QED BY <1>1, <2>2
<1> QED BY <1>2, <1>3

\* What is promised of a handler still is after a step that leaves it alone.
LEMMA RequestStays ==
    ASSUME EdgeTypes, EdgeNext, NEW h \in Request, RequestKeeps(h)
    PROVE  RequestKeeps(h)'
<1>1. /\ h.batch \in Seq(Reads) /\ h.next \in Nat /\ h.next <= Len(h.batch)
      /\ Elements(h.batch) \subseteq Reads
  BY DEF Request, Elements
<1>2. ASSUME Passed(h) PROVE Passed(h)'
  <2> SUFFICES ASSUME NEW i \in 1 .. h.next PROVE (stored[h.batch[i]] > 0 \/ h.batch[i] \in h.rejected)'
    BY DEF Passed
  <2>1. h.batch[i] \in Reads
    BY <1>1
  <2>2. stored[h.batch[i]] <= stored'[h.batch[i]]
    BY <2>1, SettledStays
  <2>3. stored[h.batch[i]] \in Nat /\ stored'[h.batch[i]] \in Nat
    BY <2>1, TableStep DEF EdgeTypes, TableTypes
  <2> QED BY <1>2, <2>2, <2>3 DEF Passed
<1>3. ASSUME NEW r \in Elements(h.batch), Settled(r) PROVE Settled(r)'
  BY <1>1, <1>3, SettledStays
<1> QED BY <1>2, <1>3 DEF RequestKeeps

LEMMA HandlersKeepStep == ASSUME EdgeTypes, HandlersKeep, EdgeNext PROVE HandlersKeep'
<1> USE DEF EdgeTypes
<1>t. ASSUME NEW c \in Calls PROVE call[c] \in Request /\ RequestKeeps(call[c])
  BY DEF HandlerTypes, HandlersKeep
<1>s. ASSUME NEW c \in Calls, call'[c] = call[c] PROVE RequestKeeps(call[c])'
  <2>1. PICK h : h = call[c]
    OBVIOUS
  <2>2. RequestKeeps(h)'
    BY <1>t, <2>1, RequestStays
  <2> QED BY <1>s, <2>1, <2>2 DEF RequestKeeps, Passed
<1>u. ASSUME NEW c \in Calls, NEW h \in Request, call' = [call EXCEPT ![c] = h], RequestKeeps(h)'
      PROVE  HandlersKeep'
  <2> SUFFICES ASSUME NEW d \in Calls PROVE RequestKeeps(call[d])'
    BY DEF HandlersKeep
  <2>1. CASE d = c
    <3>1. call'[d] = h
      BY <1>u, <2>1 DEF HandlerTypes
    <3> QED BY <1>u, <3>1 DEF RequestKeeps, Passed
  <2>2. CASE d # c
    <3>1. call'[d] = call[d]
      BY <1>u, <2>2 DEF HandlerTypes
    <3> QED BY <1>s, <3>1
  <2> QED BY <2>1, <2>2
<1>q. ASSUME NEW h \in Request, h.pc = "free" \/ (h.pc = "answered" /\ h.answer # "201") PROVE RequestKeeps(h)'
  BY <1>q DEF RequestKeeps
<1>1. ASSUME NEW c \in Calls, Send(c) PROVE HandlersKeep'
  <2>1. PICK h : h = [Free EXCEPT !.pc = "authenticate", !.batch = Batch]
    OBVIOUS
  <2>2. call' = [call EXCEPT ![c] = h]
    BY <1>1, <2>1 DEF Send
  <2>3. h \in Request
    <3>1. call'[c] = h
      BY <2>2 DEF HandlerTypes
    <3> QED BY <3>1, HandlerStep DEF HandlerTypes
  <2>4. PICK f \in Request : f = Free
    BY StartedType
  <2>5. f.next = 0
    BY <2>4 DEF Free
  <2>6. h.pc = "authenticate" /\ h.next = 0
    BY <2>1, <2>4, <2>5 DEF Request
  <2>7. RequestKeeps(h)'
    BY <2>6 DEF RequestKeeps
  <2> QED BY <1>u, <2>2, <2>3, <2>7
<1>2. ASSUME NEW c \in Calls, Authenticate(c) PROVE HandlersKeep'
  <2>1. PICK h : h = call'[c]
    OBVIOUS
  <2>2. call' = [call EXCEPT ![c] = h] /\ h \in Request
    BY <1>2, <2>1, HandlerStep DEF Authenticate, HandlerTypes
  <2>3. \/ h = Reply(c, "401") \/ h = Reply(c, "413")
        \/ h = [call[c] EXCEPT !.pc = "items"]
    BY <1>2, <2>1 DEF Authenticate, HandlerTypes
  <2>4. CASE h = Reply(c, "401") \/ h = Reply(c, "413")
    <3>1. h.pc = "free" \/ (h.pc = "answered" /\ h.answer # "201")
      BY <2>4, ReplyFields
    <3> QED BY <1>q, <1>u, <2>2, <3>1
  <2>5. CASE h = [call[c] EXCEPT !.pc = "items"]
    <3>1. h.pc = "items" /\ h.next = 0
      BY <1>2, <1>t, <2>5 DEF Authenticate, RequestKeeps, Request
    <3>2. RequestKeeps(h)'
      BY <3>1 DEF RequestKeeps, Passed
    <3> QED BY <1>u, <2>2, <3>2
  <2> QED BY <2>3, <2>4, <2>5
<1>3. ASSUME NEW c \in Calls, Accept(c) \/ Reject(c) PROVE HandlersKeep'
  <2>1. PICK h : h = call'[c]
    OBVIOUS
  <2>2. call' = [call EXCEPT ![c] = h] /\ h \in Request
    BY <1>3, <2>1, HandlerStep DEF Accept, Reject, HandlerTypes
  <2>3. /\ call[c] \in Request /\ call[c].pc = "items" /\ Item(c) \in Reads
        /\ call[c].next \in Nat /\ Passed(call[c])
    BY <1>3, <1>t, AtItem DEF Accept, Reject, MoreItems, Request, RequestKeeps
  <2>4. h.pc = "items" /\ h.batch = call[c].batch /\ h.next = call[c].next + 1
    BY <1>3, <2>1, <2>3 DEF Accept, Reject, HandlerTypes, Request
  <2>5. call[c].rejected \subseteq h.rejected /\ (stored'[Item(c)] > 0 \/ Item(c) \in h.rejected)
    <3>1. CASE Accept(c)
      <4>1. stored' = [stored EXCEPT ![Item(c)] = @ + 1]
        BY <3>1 DEF Accept
      <4>2. stored'[Item(c)] > 0
        BY <2>3, <4>1 DEF TableTypes
      <4>3. h.rejected = call[c].rejected
        BY <2>1, <2>3, <3>1 DEF Accept, HandlerTypes, Request
      <4> QED BY <4>2, <4>3
    <3>2. CASE Reject(c)
      <4>1. h.rejected = call[c].rejected \cup {Item(c)}
        BY <2>1, <2>3, <3>2 DEF Reject, HandlerTypes, Request
      <4> QED BY <4>1
    <3> QED BY <1>3, <3>1, <3>2
  <2>6. ASSUME NEW i \in 1 .. h.next PROVE stored'[h.batch[i]] > 0 \/ h.batch[i] \in h.rejected
    <3>1. CASE i = call[c].next + 1
      BY <2>4, <2>5, <3>1 DEF Item
    <3>2. CASE i # call[c].next + 1
      <4>1. i \in 1 .. call[c].next
        BY <2>3, <2>4, <3>2
      <4>2. stored[h.batch[i]] > 0 \/ h.batch[i] \in call[c].rejected
        BY <2>3, <2>4, <4>1 DEF Passed
      <4>3. h.batch[i] \in Reads
        BY <2>2, <2>6 DEF Request
      <4>4. stored[h.batch[i]] <= stored'[h.batch[i]]
        BY <4>3, SettledStays
      <4>5. stored[h.batch[i]] \in Nat /\ stored'[h.batch[i]] \in Nat
        BY <4>3, TableStep DEF TableTypes
      <4> QED BY <2>5, <4>2, <4>4, <4>5
    <3> QED BY <3>1, <3>2
  <2>7. RequestKeeps(h)'
    BY <2>4, <2>6 DEF RequestKeeps, Passed
  <2> QED BY <1>u, <2>2, <2>7
<1>4. ASSUME NEW c \in Calls, Audit(c) PROVE HandlersKeep'
  <2>1. PICK h : h = [call[c] EXCEPT !.pc = "report"]
    OBVIOUS
  <2>2. call' = [call EXCEPT ![c] = h]
    BY <1>4, <2>1 DEF Audit
  <2>3. h \in Request /\ h.pc = "report" /\ h.next = call[c].next /\ h.batch = call[c].batch
        /\ h.rejected = call[c].rejected
    BY <1>t, <2>1 DEF Request, RequestPcs
  <2>4. call[c].next = Len(call[c].batch) /\ RequestKeeps(call[c]) /\ call[c].pc = "items"
    <3>1. call[c].next \in Nat /\ Len(call[c].batch) \in Nat /\ call[c].next <= Len(call[c].batch)
      BY <1>t DEF Request
    <3> QED BY <1>4, <1>t, <3>1 DEF Audit, MoreItems
  <2>5. RequestKeeps(h)
    BY <2>3, <2>4 DEF RequestKeeps, Passed
  <2> QED BY <1>u, <2>2, <2>3, <2>5, RequestStays
<1>5. ASSUME NEW c \in Calls, Report(c) PROVE HandlersKeep'
  <2>a. PICK answer \in {"201", "400"} : call' = [call EXCEPT ![c] = Reply(c, answer)]
    BY <1>5 DEF Report
  <2>1. PICK h : h = Reply(c, answer) /\ call' = [call EXCEPT ![c] = h]
    BY <2>a
  <2>2. h \in Request
    BY <2>1, ReplyFields
  <2>3. CASE h.pc = "free" \/ answer = "400"
    <3>1. h.pc = "free" \/ (h.pc = "answered" /\ h.answer # "201")
      BY <2>1, <2>3, ReplyFields
    <3> QED BY <1>q, <1>u, <2>1, <2>2, <3>1
  <2>4. CASE h.pc # "free"
    <3>1. h.pc = "answered" /\ h.batch = call[c].batch
      BY <2>1, <2>4, ReplyFields
    <3>2. call[c] \in Request /\ Passed(call[c]) /\ call[c].next = Len(call[c].batch)
      BY <1>5, <1>t DEF Report, RequestKeeps
    <3>3. refused' = refused \cup call[c].rejected /\ UNCHANGED <<stored, givenUp>>
      BY <1>5 DEF Report, RejectedItems, history
    <3>4. ASSUME NEW r \in Elements(h.batch) PROVE Settled(r)'
      <4>1. PICK i \in 1 .. Len(call[c].batch) : r = call[c].batch[i]
        BY <3>1, <3>2 DEF Elements, Request
      <4>2. stored[r] > 0 \/ r \in call[c].rejected
        BY <3>2, <4>1 DEF Passed
      <4> QED BY <3>3, <4>2 DEF Settled
    <3>5. RequestKeeps(h)'
      BY <3>1, <3>4 DEF RequestKeeps
    <3> QED BY <1>u, <2>1, <2>2, <3>5
  <2> QED BY <2>3, <2>4
<1>6. ASSUME NEW c \in Calls, Fail(c) PROVE HandlersKeep'
  <2>1. PICK h : h = Reply(c, "500") /\ call' = [call EXCEPT ![c] = h]
    BY <1>6 DEF Fail
  <2>2. h \in Request /\ (h.pc = "free" \/ (h.pc = "answered" /\ h.answer # "201"))
    BY <2>1, ReplyFields
  <2> QED BY <1>q, <1>u, <2>1, <2>2
<1>f. Free \in Request /\ RequestKeeps(Free)'
  BY StartedType DEF Free, RequestKeeps
<1>7. CASE UNCHANGED call
  BY <1>7, <1>s DEF HandlersKeep
<1>8. CASE Delivered \/ GiveUp \/ Hold \/ LinkDown \/ Crash
  <2>1. call' = call \/ (call' = [call EXCEPT ![agent.call] = Free] /\ agent.call \in Calls)
    BY <1>8 DEF Delivered, GiveUp, Hold, LinkDown, Crash, Answered, AgentTypes, Agent
  <2> QED BY <1>7, <1>f, <1>u, <2>1
<1>9. CASE ServerDies
  <2>1. \A c \in Calls : call'[c] = Free
    BY <1>9 DEF ServerDies
  <2>2. Free.pc = "free"
    BY DEF Free
  <2> QED BY <2>1, <2>2 DEF HandlersKeep, RequestKeeps
<1>10. ASSUME NEW n \in Names, Skip(n) \/ Recognize(n) \/ Shoot(n) PROVE UNCHANGED call
  BY <1>10 DEF Skip, Recognize, Shoot
<1>11. CASE Scan \/ Spool \/ Mark \/ ScanDone \/ Save \/ Flush \/ KeepOnly
  BY <1>7, <1>11 DEF Scan, Spool, Mark, ScanDone, Save, Flush, KeepOnly
<1>12. CASE SuspendFeed \/ ReactivateFeed \/ SaveFails
  BY <1>7, <1>12 DEF SuspendFeed, ReactivateFeed, SaveFails
<1> QED BY <1>1, <1>2, <1>3, <1>4, <1>5, <1>6, <1>7, <1>8, <1>9, <1>10, <1>11, <1>12 DEF EdgeNext, AgentStep, Serve

\* A step after which the agent waits began the waiting, or left the agent and
\* its handler's batch alone.
LEMMA Waiting ==
    ASSUME EdgeTypes, EdgeNext, agent'.pc = "wait"
    PROVE  \/ \E c \in Calls : Send(c)
           \/ /\ agent' = agent /\ spool' = spool
              /\ \A c \in Calls : call'[c].pc # "free" =>
                   call[c].pc # "free" /\ call'[c].batch = call[c].batch
<1> USE DEF EdgeTypes
<1>t. agent \in Agent /\ \A c \in Calls : call[c] \in Request
  BY DEF AgentTypes, HandlerTypes
<1>1. ASSUME NEW c \in Calls, Serve(c) \/ Fail(c)
      PROVE  /\ agent' = agent /\ spool' = spool
             /\ call[c].pc # "free"
             /\ \A d \in Calls : d # c => call'[d] = call[d]
             /\ call'[c].pc = "free" \/ call'[c].batch = call[c].batch
  <2>1. PICK h : h = call'[c]
    OBVIOUS
  <2>2. agent' = agent /\ spool' = spool /\ call[c].pc # "free"
    BY <1>1 DEF Serve, Fail, Authenticate, Accept, Reject, Audit, Report, MoreItems, files
  <2>3. \A d \in Calls : d # c => call'[d] = call[d]
    BY <1>1 DEF HandlerTypes, Serve, Fail, Authenticate, Accept, Reject, Audit, Report
  <2>4. CASE \E answer \in {"201", "400", "401", "413", "500"} : h = Reply(c, answer)
    BY <2>1, <2>2, <2>3, <2>4, ReplyFields
  <2>5. CASE Audit(c) \/ Accept(c) \/ Reject(c)
    <3>1. call'[c].batch = call[c].batch
      BY <1>t, <2>5 DEF HandlerTypes, Audit, Accept, Reject, Request
    <3> QED BY <2>2, <2>3, <3>1
  <2>6. CASE h = [call[c] EXCEPT !.pc = "items"]
    <3>1. call'[c].batch = call[c].batch
      BY <1>t, <2>1, <2>6 DEF Request
    <3> QED BY <2>2, <2>3, <3>1
  <2>7. Authenticate(c) =>
          (h = Reply(c, "401") \/ h = Reply(c, "413") \/ h = [call[c] EXCEPT !.pc = "items"])
    BY <2>1 DEF Authenticate, HandlerTypes
  <2>8. Report(c) => h = Reply(c, "201") \/ h = Reply(c, "400")
    BY <2>1 DEF Report, HandlerTypes
  <2>9. Fail(c) => h = Reply(c, "500")
    BY <2>1 DEF Fail, HandlerTypes
  <2> QED BY <1>1, <2>4, <2>5, <2>6, <2>7, <2>8, <2>9 DEF Serve
<1>2. CASE UNCHANGED <<agent, spool, call>>
  BY <1>2
<1>3. CASE ServerDies
  <2>1. agent' = agent /\ spool' = spool /\ \A c \in Calls : call'[c] = Free
    BY <1>3 DEF ServerDies, files
  <2> QED BY <2>1 DEF Free
<1>4. ASSUME NEW n \in Names, Skip(n) PROVE agent'.pc = "frame"
  BY <1>t, <1>4 DEF Skip, Agent
<1>5. ASSUME NEW n \in Names, Recognize(n) PROVE agent'.pc = "spool"
  BY <1>t, <1>5 DEF Recognize, Agent
<1>6. ASSUME NEW n \in Names, Shoot(n) PROVE UNCHANGED <<agent, spool, call>>
  BY <1>6 DEF Shoot, files
<1>7. CASE SuspendFeed \/ ReactivateFeed
  BY <1>2, <1>7 DEF SuspendFeed, ReactivateFeed, files
<1>8. ASSUME Spool \/ Mark \/ ScanDone \/ Save \/ Flush \/ Delivered \/ GiveUp \/ Hold \/ SaveFails \/ LinkDown
      PROVE  agent'.pc # "wait"
  BY <1>8, <1>t DEF Spool, Mark, ScanDone, AfterScan, Save, Flush, Delivered, GiveUp, Hold, SaveFails, LinkDown, Agent
<1>9. Started.pc = "scan" /\ [Started EXCEPT !.pc = "frame", !.todo = {n \in Names : watch[n] > 0}].pc = "frame"
  <2>1. PICK s \in Agent : s = Started
    BY StartedType
  <2> QED BY <2>1 DEF Started, Agent
<1>10. ASSUME Scan \/ KeepOnly \/ Crash PROVE agent'.pc # "wait"
  BY <1>9, <1>10 DEF Scan, KeepOnly, Crash
<1> QED BY <1>1, <1>2, <1>3, <1>4, <1>5, <1>6, <1>7, <1>8, <1>10 DEF EdgeNext, AgentStep

LEMMA WaitsForBatchStep == ASSUME EdgeTypes, WaitsForBatch, EdgeNext PROVE WaitsForBatch'
<1> SUFFICES ASSUME agent'.pc = "wait"
             PROVE  /\ agent'.rest = Rest'
                    /\ call'[agent'.call].pc # "free" => call'[agent'.call].batch = Batch'
  BY DEF WaitsForBatch
<1>1. ASSUME NEW c \in Calls, Send(c)
      PROVE  /\ agent'.rest = Rest' /\ agent'.call = c /\ agent'.pending = agent.pending
             /\ call'[c].batch = Batch'
  <2>1. agent' = [agent EXCEPT !.pc = "wait", !.call = c, !.rest = Rest] /\ agent \in Agent
    BY <1>1 DEF Send, EdgeTypes, AgentTypes
  <2>2. agent'.pending = agent.pending /\ agent'.rest = Rest /\ agent'.call = c
    BY <2>1 DEF Agent
  <2>3. Rest' = Rest /\ Batch' = Batch
    BY <2>2 DEF Rest, Batch
  <2>4. call'[c] = [Free EXCEPT !.pc = "authenticate", !.batch = Batch]
    BY <1>1 DEF Send, EdgeTypes, HandlerTypes
  <2>5. PICK f \in Request : f = Free
    BY StartedType
  <2>6. call'[c].batch = Batch
    BY <2>4, <2>5 DEF Request
  <2> QED BY <2>2, <2>3, <2>6
<1>2. ASSUME agent' = agent,
             \A c \in Calls : call'[c].pc # "free" => call[c].pc # "free" /\ call'[c].batch = call[c].batch
      PROVE  /\ agent'.rest = Rest'
             /\ call'[agent'.call].pc # "free" => call'[agent'.call].batch = Batch'
  <2>1. Rest' = Rest /\ Batch' = Batch
    BY <1>2 DEF Rest, Batch
  <2>2. agent.call \in Calls
    BY <1>2 DEF EdgeTypes, AgentTypes, Agent
  <2> QED BY <1>2, <2>1, <2>2 DEF WaitsForBatch
<1> QED BY <1>1, <1>2, Waiting

LEMMA FlushKeepsStep == ASSUME EdgeTypes, QueuesKeep, EdgeNext PROVE FlushKeeps'
<1> USE DEF EdgeTypes
<1>t. agent \in Agent /\ spool \in Seq(Reads) /\ Elements(spool) \subseteq Reads
  BY DEF AgentTypes, Elements
<1>s. \A r \in Reads : Settled(r) => Settled(r)'
  BY SettledStays
<1>k. ASSUME agent.pc \in {"send", "wait", "keep"}, agent'.pending = agent.pending, spool' = spool
      PROVE  FlushKeeps'
  BY <1>k, <1>s, <1>t DEF QueuesKeep, FlushKeeps
<1>1. CASE Flush
  <2>1. agent'.pending = spool /\ spool' = spool
    BY <1>1, <1>t DEF Flush, Agent, files
  <2> QED BY <2>1 DEF FlushKeeps
<1>2. ASSUME NEW c \in Calls, Send(c) PROVE FlushKeeps'
  <2>1. agent.pc = "send" /\ agent'.pending = agent.pending /\ spool' = spool
    BY <1>2, <1>t DEF Send, Agent, files
  <2> QED BY <1>k, <2>1
<1>3. CASE Delivered \/ GiveUp
  <2>1. /\ agent.pc = "wait" /\ agent'.pending = agent.rest /\ spool' = spool
        /\ call[agent.call].pc = "answered"
    BY <1>3, <1>t DEF Delivered, GiveUp, Answered, Agent, files
  <2>2. agent.call \in Calls /\ agent.rest = Rest /\ call[agent.call].batch = Batch
    BY <2>1 DEF AgentTypes, Agent, QueuesKeep, WaitsForBatch
  <2>3. Elements(agent.pending) = Elements(Batch) \cup Elements(agent.rest)
    BY <2>2, PendingIsSplit
  <2>4. \A r \in Elements(Batch) : Settled(r)'
    <3>1. CASE Delivered
      <4>1. call[agent.call].answer = "201"
        BY <3>1 DEF Delivered, Answered
      <4>2. \A r \in Elements(Batch) : Settled(r)
        BY <2>1, <2>2, <4>1 DEF QueuesKeep, HandlersKeep, RequestKeeps
      <4> QED BY <1>s, <4>2, BatchTypes
    <3>2. CASE GiveUp
      BY <3>2 DEF GiveUp, Settled
    <3> QED BY <1>3, <3>1, <3>2
  <2>5. \A r \in Elements(spool) : r \in Elements(agent.pending) \/ Settled(r)
    BY <2>1 DEF QueuesKeep, FlushKeeps
  <2> QED BY <1>s, <1>t, <2>1, <2>3, <2>4, <2>5 DEF FlushKeeps
<1>4. CASE Hold \/ LinkDown
  <2>1. agent.pc \in {"send", "wait"} /\ agent'.pending = agent.pending /\ spool' = spool
    BY <1>4, <1>t DEF Hold, LinkDown, Held, Answered, Agent, files
  <2> QED BY <1>k, <2>1
<1>5. CASE UNCHANGED <<agent, spool>>
  BY <1>5, <1>s, <1>t DEF QueuesKeep, FlushKeeps
<1>6. ASSUME NEW c \in Calls, Serve(c) \/ Fail(c) PROVE UNCHANGED <<agent, spool>>
  BY <1>6 DEF Serve, Authenticate, Accept, Reject, Audit, Report, Fail, files
<1>7. ASSUME NEW n \in Names, Shoot(n) PROVE UNCHANGED <<agent, spool>>
  BY <1>7 DEF Shoot, files
<1>8. CASE SuspendFeed \/ ReactivateFeed \/ ServerDies
  BY <1>5, <1>8 DEF SuspendFeed, ReactivateFeed, ServerDies, files
<1>9. ASSUME NEW n \in Names, Skip(n) \/ Recognize(n) PROVE agent'.pc \in {"frame", "spool"}
  BY <1>9, <1>t DEF Skip, Recognize, Agent
<1>10. ASSUME Spool \/ Mark \/ ScanDone \/ Save \/ SaveFails
       PROVE  agent'.pc \in {"spool", "frame", "save", "scan", "flush"}
  BY <1>10, <1>t DEF Spool, Mark, ScanDone, AfterScan, Save, SaveFails, Agent
<1>11. Started.pc = "scan" /\ [Started EXCEPT !.pc = "frame", !.todo = {n \in Names : watch[n] > 0}].pc = "frame"
  <2>1. PICK s \in Agent : s = Started
    BY StartedType
  <2> QED BY <2>1 DEF Started, Agent
<1>12. ASSUME Scan \/ KeepOnly \/ Crash PROVE agent'.pc \in {"scan", "frame"}
  BY <1>11, <1>12 DEF Scan, KeepOnly, Crash
<1>13. agent'.pc \in {"spool", "frame", "save", "scan", "flush"} => FlushKeeps'
  BY DEF FlushKeeps
<1> QED BY <1>1, <1>2, <1>3, <1>4, <1>5, <1>6, <1>7, <1>8, <1>9, <1>10, <1>12, <1>13 DEF EdgeNext, AgentStep

LEMMA QueuesKeepStep == EdgeTypes /\ QueuesKeep /\ [EdgeNext]_edgeVars => QueuesKeep'
<1>1. EdgeTypes /\ QueuesKeep /\ EdgeNext => QueuesKeep'
  BY FlushKeepsStep, WaitsForBatchStep, HandlersKeepStep DEF QueuesKeep
<1>2. QueuesKeep /\ UNCHANGED edgeVars => QueuesKeep'
  BY DEF QueuesKeep, FlushKeeps, WaitsForBatch, HandlersKeep, RequestKeeps, Passed, Settled, Rest, Batch,
         edgeVars, files, tables, history
<1> QED BY <1>1, <1>2

\* The spool gives up a read only when a flush that took it has settled it.
LEMMA SafeStays ==
    ASSUME EdgeTypes, QueuesKeep, EdgeNext, NEW r \in Reads, Safe(r)
    PROVE  Safe(r)'
<1> USE DEF EdgeTypes
<1>t. agent \in Agent /\ spool \in Seq(Reads)
  BY DEF AgentTypes
<1>1. CASE Settled(r)
  BY <1>1, SettledStays DEF Safe
<1>2. CASE r \in Elements(spool) /\ KeepOnly
  <2>1. agent.pc \in {"send", "keep"} /\ spool' = agent.pending
    BY <1>2 DEF KeepOnly, Remaining
  <2>2. r \in Elements(agent.pending) \/ Settled(r)
    BY <1>2, <2>1 DEF QueuesKeep, FlushKeeps
  <2> QED BY <2>1, <2>2, SettledStays DEF Safe
<1>3. CASE r \in Elements(spool) /\ Spool
  <2>1. agent.unread \in Seq(Reads) /\ agent.unread # <<>> /\ spool' = Append(spool, Head(agent.unread))
    BY <1>3, <1>t DEF Spool, Appended, Agent
  <2>2. Head(agent.unread) \in Reads
    BY <2>1, TakenElements
  <2>3. Elements(spool') = Elements(spool) \cup {Head(agent.unread)}
    BY <1>t, <2>1, <2>2, SpooledElements
  <2> QED BY <1>3, <2>3 DEF Safe
<1>4. ASSUME spool' = spool, r \in Elements(spool) PROVE Safe(r)'
  BY <1>4 DEF Safe
<1>5. ASSUME NEW c \in Calls, Send(c) \/ Serve(c) \/ Fail(c) PROVE spool' = spool
  BY <1>5 DEF Send, Serve, Authenticate, Accept, Reject, Audit, Report, Fail, files
<1>6. ASSUME NEW n \in Names, Skip(n) \/ Recognize(n) \/ Shoot(n) PROVE spool' = spool
  BY <1>6 DEF Skip, Recognize, Shoot, files
<1>7. ASSUME Scan \/ Mark \/ ScanDone \/ Save \/ Flush \/ Delivered \/ GiveUp \/ Hold PROVE spool' = spool
  BY <1>7 DEF Scan, Mark, ScanDone, Save, Flush, Delivered, GiveUp, Hold, files
<1>8. ASSUME SuspendFeed \/ ReactivateFeed \/ SaveFails \/ LinkDown \/ Crash \/ ServerDies PROVE spool' = spool
  BY <1>8 DEF SuspendFeed, ReactivateFeed, SaveFails, LinkDown, Crash, ServerDies, files
<1>9. r \in Elements(spool) \/ Settled(r)
  BY DEF Safe
<1> QED BY <1>1, <1>2, <1>3, <1>4, <1>5, <1>6, <1>7, <1>8, <1>9 DEF EdgeNext, AgentStep

\* A step after which the agent has a frame in its hands.
LEMMA FrameInHandStep ==
    ASSUME EdgeTypes, QueuesKeep, FrameInHand, EdgeNext
    PROVE  FrameInHand'
<1> USE DEF EdgeTypes
<1>t. agent \in Agent /\ spool \in Seq(Reads) /\ agent.unread \in Seq(Reads)
  BY DEF AgentTypes, Agent
<1>r. \A f \in Frames : ReadsOf(f) \subseteq Reads
  BY DEF Reads
<1>k. ASSUME agent' = agent,
             agent.pc = "spool" /\ WrittenOnce(agent.frame)' =>
                 WrittenOnce(agent.frame) /\ watch'[agent.frame[1]] = watch[agent.frame[1]]
      PROVE  FrameInHand'
  <2> SUFFICES ASSUME agent.pc = "spool"
               PROVE  /\ WrittenOnce(agent.frame)' => agent.frame[2] = watch'[agent.frame[1]]
                      /\ \A r \in ReadsOf(agent.frame) : r \in Elements(agent.unread) \/ Safe(r)'
    BY <1>k DEF FrameInHand
  <2>1. agent.frame \in Frames
    BY DEF AgentTypes
  <2>2. \A r \in ReadsOf(agent.frame) : r \in Elements(agent.unread) \/ Safe(r)'
    BY <1>r, <2>1, SafeStays DEF FrameInHand
  <2> QED BY <1>k, <2>2 DEF FrameInHand
<1>1. ASSUME NEW n \in Names, Recognize(n) PROVE FrameInHand'
  <2>1. PICK s : s = [i \in 1 .. ReadsIn[n] |-> <<n, watch[n], i>>]
    OBVIOUS
  <2>2. PICK f : f = <<n, watch[n]>>
    OBVIOUS
  <2>3. agent' = [agent EXCEPT !.pc = "spool", !.frame = f, !.new = TRUE, !.unread = s] /\ watch' = watch
    BY <1>1, <2>1, <2>2 DEF Recognize
  <2>4. agent'.frame = f /\ agent'.unread = s
    BY <1>t, <2>3 DEF Agent
  <2>5. watch[n] \in 1 .. MaxVersion
    <3>1. watch[n] > 0 /\ watch[n] \in 0 .. MaxVersion
      BY <1>1 DEF Recognize, AgentTypes, CameraTypes
    <3> QED BY <3>1, BoundsAssumption
  <2>6. Elements(s) = ReadsOf(f)
    BY <2>1, <2>2, <2>5, RecognizedElements
  <2>7. f[1] = n /\ f[2] = watch[n]
    BY <2>2
  <2> QED BY <2>3, <2>4, <2>6, <2>7 DEF FrameInHand
<1>2. CASE Spool
  <2>1. /\ agent.pc = "spool" /\ agent.unread # <<>> /\ UNCHANGED <<watch, shot>>
        /\ spool' = Append(spool, Head(agent.unread))
        /\ agent' = [agent EXCEPT !.unread = Tail(@)]
    BY <1>2 DEF Spool, Appended
  <2>2. agent'.frame = agent.frame /\ agent'.unread = Tail(agent.unread)
    BY <1>t, <2>1 DEF Agent
  <2>3. Head(agent.unread) \in Reads /\ Elements(agent.unread) = {Head(agent.unread)} \cup Elements(Tail(agent.unread))
    BY <1>t, <2>1, TakenElements
  <2>4. Elements(spool') = Elements(spool) \cup {Head(agent.unread)}
    BY <1>t, <2>1, <2>3, SpooledElements
  <2>5. agent.frame \in Frames
    BY <2>1 DEF AgentTypes
  <2>6. ASSUME NEW r \in ReadsOf(agent.frame) PROVE r \in Elements(agent'.unread) \/ Safe(r)'
    <3>1. CASE r = Head(agent.unread)
      BY <2>4, <3>1 DEF Safe
    <3>2. CASE r # Head(agent.unread) /\ r \in Elements(agent.unread)
      BY <2>2, <2>3, <3>2
    <3>3. CASE Safe(r)
      BY <1>r, <2>5, <3>3, SafeStays
    <3> QED BY <2>1, <3>1, <3>2, <3>3 DEF FrameInHand
  <2> QED BY <2>1, <2>2, <2>6 DEF FrameInHand, WrittenOnce
<1>3. ASSUME NEW n \in Names, Shoot(n) PROVE FrameInHand'
  <2> SUFFICES ASSUME agent.pc = "spool", WrittenOnce(agent.frame)'
               PROVE  WrittenOnce(agent.frame) /\ watch'[agent.frame[1]] = watch[agent.frame[1]]
    BY <1>3, <1>k DEF Shoot
  <2> DEFINE m == agent.frame[1]
  <2>1. m \in agent.todo /\ m \in Names
    BY DEF AgentTypes, Agent
  <2>2. /\ agent' = agent /\ shot[n] < MaxVersion
        /\ watch' = [watch EXCEPT ![n] = shot[n] + 1]
        /\ shot' = [shot EXCEPT ![n] = @ + 1]
    BY <1>3 DEF Shoot
  <2>3. shot'[m] <= 1
    BY <2>2 DEF WrittenOnce
  <2>4. CASE m = n
    <3>1. shot[n] \in Nat /\ watch[n] \in {0, shot[n]}
      BY BoundsAssumption DEF CameraTypes
    <3>2. shot'[n] = shot[n] + 1
      BY <2>2 DEF CameraTypes
    <3>3. watch[n] = 0
      BY <2>3, <2>4, <3>1, <3>2
    <3> QED BY <2>1, <2>4, <3>3 DEF AgentTypes
  <2>5. CASE m # n
    <3>1. shot'[m] = shot[m] /\ watch'[m] = watch[m]
      BY <2>1, <2>2, <2>5 DEF CameraTypes
    <3> QED BY <2>3, <3>1 DEF WrittenOnce
  <2> QED BY <2>4, <2>5
<1>4. ASSUME NEW c \in Calls, Serve(c) \/ Fail(c) PROVE UNCHANGED <<agent, watch, shot>>
  BY <1>4 DEF Serve, Authenticate, Accept, Reject, Audit, Report, Fail
<1>5. CASE SuspendFeed \/ ReactivateFeed \/ ServerDies
  BY <1>5, <1>k DEF SuspendFeed, ReactivateFeed, ServerDies, WrittenOnce
<1>6. ASSUME NEW n \in Names, Skip(n) PROVE agent'.pc # "spool"
  BY <1>6, <1>t DEF Skip, Agent
<1>7. ASSUME NEW c \in Calls, Send(c) PROVE agent'.pc # "spool"
  BY <1>7, <1>t DEF Send, Agent
<1>8. ASSUME \/ Mark \/ ScanDone \/ Save \/ Flush \/ Delivered \/ GiveUp \/ Hold \/ SaveFails \/ LinkDown
      PROVE  agent'.pc # "spool"
  BY <1>8, <1>t DEF Mark, ScanDone, AfterScan, Save, Flush, Delivered, GiveUp, Hold, SaveFails, LinkDown, Agent
<1>9. Started.pc = "scan" /\ [Started EXCEPT !.pc = "frame", !.todo = {n \in Names : watch[n] > 0}].pc = "frame"
  <2>1. PICK s \in Agent : s = Started
    BY StartedType
  <2> QED BY <2>1 DEF Started, Agent
<1>10. ASSUME Scan \/ KeepOnly \/ Crash PROVE agent'.pc # "spool"
  BY <1>9, <1>10 DEF Scan, KeepOnly, Crash
<1>11. agent'.pc # "spool" => FrameInHand'
  BY DEF FrameInHand
<1> QED BY <1>1, <1>2, <1>3, <1>4, <1>5, <1>6, <1>7, <1>8, <1>10, <1>11, <1>k DEF EdgeNext, AgentStep, WrittenOnce

\* The only frame written once that a step can finish with is the one in the agent's
\* hands.
LEMMA HandledByMark ==
    ASSUME EdgeTypes, FrameInHand, EdgeNext,
           NEW f \in Frames, WrittenOnce(f)', Handled(f)', ~Handled(f)
    PROVE  Mark /\ f = agent.frame
<1> USE DEF EdgeTypes
<1>f. f[1] \in Names /\ f[2] \in 1 .. MaxVersion /\ MaxVersion \in Nat /\ f = <<f[1], f[2]>>
  BY BoundsAssumption DEF Frames
<1>h. f \notin processed /\ f \notin saved /\ (f[2] <= shot[f[1]] => watch[f[1]] = f[2])
  BY DEF Handled
<1>1. CASE Mark
  <2>1. PICK n \in Names : n = agent.frame[1]
    BY <1>1 DEF Mark, AgentTypes, Agent
  <2>2. /\ agent.pc = "spool" /\ saved' = saved /\ shot' = shot
        /\ processed' = processed \cup {<<n, watch[n]>>}
        /\ watch' = watch \/ watch' = [watch EXCEPT ![n] = Removed(n)]
    BY <1>1, <2>1 DEF Mark, files
  <2>3. f = <<n, watch[n]>>
    <3>1. CASE f \in processed' \cup saved'
      BY <1>h, <2>2, <3>1
    <3>2. CASE f[2] <= shot'[f[1]] /\ watch'[f[1]] # f[2]
      <4>1. watch[f[1]] = f[2]
        BY <1>h, <2>2, <3>2
      <4>2. f[1] # n => watch'[f[1]] = watch[f[1]]
        BY <1>f, <2>2 DEF CameraTypes
      <4>3. f[1] = n
        BY <3>2, <4>1, <4>2
      <4> QED BY <1>f, <4>1, <4>3
    <3> QED BY <3>1, <3>2 DEF Handled
  <2>4. agent.frame \in Frames /\ f[1] = n
    BY <2>2, <2>3 DEF AgentTypes
  <2>5. WrittenOnce(agent.frame)
    BY <2>1, <2>2, <2>4 DEF WrittenOnce
  <2>6. agent.frame[2] = watch[n]
    BY <2>1, <2>2, <2>5 DEF FrameInHand
  <2> QED BY <1>1, <2>1, <2>3, <2>4, <2>6 DEF Frames
<1>2. ASSUME NEW n \in Names, Shoot(n) PROVE FALSE
  <2>1. /\ UNCHANGED <<processed, saved>> /\ shot[n] < MaxVersion
        /\ watch' = [watch EXCEPT ![n] = shot[n] + 1]
        /\ shot' = [shot EXCEPT ![n] = @ + 1]
    BY <1>2 DEF Shoot, files
  <2>2. f[2] <= shot'[f[1]] /\ watch'[f[1]] # f[2]
    BY <1>h, <2>1 DEF Handled
  <2>3. CASE f[1] = n
    <3>1. shot[n] \in 0 .. MaxVersion /\ shot'[n] = shot[n] + 1
      BY <2>1 DEF CameraTypes
    <3>2. shot[n] = 0 /\ f[2] = 1
      BY <1>f, <2>2, <2>3, <3>1 DEF WrittenOnce
    <3>3. watch'[n] = shot[n] + 1
      BY <2>1 DEF CameraTypes
    <3> QED BY <2>2, <2>3, <3>2, <3>3
  <2>4. CASE f[1] # n
    <3>1. shot'[f[1]] = shot[f[1]] /\ watch'[f[1]] = watch[f[1]]
      BY <1>f, <2>1, <2>4 DEF CameraTypes
    <3> QED BY <1>h, <2>2, <3>1
  <2> QED BY <2>3, <2>4
<1>3. ASSUME UNCHANGED <<shot, watch>>, processed' \subseteq processed \cup saved, saved' \subseteq processed \cup saved
      PROVE  FALSE
  BY <1>3, <1>h DEF Handled
<1>4. CASE Save \/ SaveFails \/ Crash
  BY <1>3, <1>4 DEF Save, SaveFails, Crash, files
<1>5. CASE UNCHANGED <<shot, watch, processed, saved>>
  BY <1>3, <1>5
<1>6. ASSUME NEW c \in Calls, Send(c) \/ Serve(c) \/ Fail(c) PROVE UNCHANGED <<shot, watch, processed, saved>>
  BY <1>6 DEF Send, Serve, Authenticate, Accept, Reject, Audit, Report, Fail, files
<1>7. ASSUME NEW n \in Names, Skip(n) \/ Recognize(n) PROVE UNCHANGED <<shot, watch, processed, saved>>
  BY <1>7 DEF Skip, Recognize, files
<1>8. CASE Scan \/ Spool \/ ScanDone \/ Flush \/ Delivered \/ GiveUp \/ Hold \/ KeepOnly
  BY <1>5, <1>8 DEF Scan, Spool, ScanDone, Flush, Delivered, GiveUp, Hold, KeepOnly, files
<1>9. CASE SuspendFeed \/ ReactivateFeed \/ LinkDown \/ ServerDies
  BY <1>5, <1>9 DEF SuspendFeed, ReactivateFeed, LinkDown, ServerDies, files
<1> QED BY <1>1, <1>2, <1>4, <1>5, <1>6, <1>7, <1>8, <1>9 DEF EdgeNext, AgentStep

LEMMA ShotOnlyGrows ==
    ASSUME EdgeTypes, EdgeNext, NEW n \in Names
    PROVE  shot[n] <= shot'[n]
<1>1. shot \in [Names -> 0 .. MaxVersion] /\ MaxVersion \in Nat
  BY BoundsAssumption DEF EdgeTypes, CameraTypes
<1>2. ASSUME NEW m \in Names, Shoot(m) PROVE shot' = [shot EXCEPT ![m] = @ + 1]
  BY <1>2 DEF Shoot
<1>3. shot' = shot \/ \E m \in Names : Shoot(m)
  <2>1. ASSUME NEW c \in Calls, Send(c) \/ Serve(c) \/ Fail(c) PROVE shot' = shot
    BY <2>1 DEF Send, Serve, Authenticate, Accept, Reject, Audit, Report, Fail
  <2>2. ASSUME NEW m \in Names, Skip(m) \/ Recognize(m) PROVE shot' = shot
    BY <2>2 DEF Skip, Recognize
  <2>3. ASSUME Scan \/ Spool \/ Mark \/ ScanDone \/ Save \/ Flush \/ Delivered \/ GiveUp \/ Hold \/ KeepOnly
        PROVE  shot' = shot
    BY <2>3 DEF Scan, Spool, Mark, ScanDone, Save, Flush, Delivered, GiveUp, Hold, KeepOnly
  <2>4. ASSUME SuspendFeed \/ ReactivateFeed \/ SaveFails \/ LinkDown \/ Crash \/ ServerDies PROVE shot' = shot
    BY <2>4 DEF SuspendFeed, ReactivateFeed, SaveFails, LinkDown, Crash, ServerDies
  <2> QED BY <2>1, <2>2, <2>3, <2>4 DEF EdgeNext, AgentStep
<1> QED BY <1>1, <1>2, <1>3

LEMMA FilesKeptStep ==
    ASSUME EdgeTypes, QueuesKeep, FrameInHand, FilesKept, EdgeNext
    PROVE  FilesKept'
<1> SUFFICES ASSUME NEW f \in Frames, WrittenOnce(f)', Handled(f)', NEW r \in ReadsOf(f) PROVE Safe(r)'
  BY DEF FilesKept
<1>1. r \in Reads
  BY DEF Reads
<1>2. CASE Handled(f)
  <2>1. f[1] \in Names
    BY DEF Frames
  <2>2. shot[f[1]] <= shot'[f[1]]
    BY <2>1, ShotOnlyGrows
  <2>3. shot[f[1]] \in Nat /\ shot'[f[1]] \in Nat
    BY <2>1, CameraStep, BoundsAssumption DEF EdgeTypes, CameraTypes
  <2>4. Safe(r)
    BY <1>2, <2>2, <2>3 DEF FilesKept, WrittenOnce
  <2> QED BY <1>1, <2>4, SafeStays
<1>3. CASE ~Handled(f)
  <2>1. Mark /\ f = agent.frame
    BY <1>3, HandledByMark
  <2>2. agent.pc = "spool" /\ agent.unread = <<>>
    BY <2>1 DEF Mark
  <2>3. Elements(<<>>) = {}
    BY DEF Elements
  <2>4. Safe(r)
    BY <2>1, <2>2, <2>3 DEF FrameInHand
  <2> QED BY <1>1, <2>4, SafeStays
<1> QED BY <1>2, <1>3

KeepInv == EdgeTypes /\ QueuesKeep /\ FrameInHand /\ FilesKept

\* Nothing is lost of a file the camera wrote once, however often it writes others:
\* whichever of the two dies, whatever the link does, a read of a frame that will
\* not be looked at again is in the spool, in the store, or refused (the scan and the
\* flush of edge_agent.py:319-343, and /ingest).  A file written again while its
\* frame is in the recognizer is marked unread (RewrittenIsNew).
THEOREM FilesAreKept == EdgeSpec => []FilesKept
<1>1. EdgeInit => KeepInv
  BY InitTypes, InitKeeps DEF KeepInv
<1>2. KeepInv /\ [EdgeNext]_edgeVars => KeepInv'
  <2>1. KeepInv /\ EdgeNext => KeepInv'
    BY EdgeTypesStep, QueuesKeepStep, FrameInHandStep, FilesKeptStep DEF KeepInv
  <2>2. KeepInv /\ UNCHANGED edgeVars => FrameInHand' /\ FilesKept'
    BY DEF KeepInv, FrameInHand, FilesKept, WrittenOnce, Handled, Safe, Settled, edgeVars, files, tables, history
  <2> QED BY <2>1, <2>2, EdgeTypesStep, QueuesKeepStep DEF KeepInv
<1> QED BY <1>1, <1>2, PTL DEF EdgeSpec, KeepInv

\* And so "must not lose observations" (edge_agent.py:31) holds of all files of a
\* camera that writes each of them once, which is what the run checks.
THEOREM ReadsAreKept == ASSUME MaxVersion <= 1 PROVE EdgeSpec => []NothingLost
<1>1. EdgeInit => EdgeTypes
  BY InitTypes
<1>2. EdgeTypes /\ FilesKept => NothingLost
  <2> SUFFICES ASSUME EdgeTypes, FilesKept PROVE NothingLost
    OBVIOUS
  <2>1. ASSUME NEW f \in Frames PROVE WrittenOnce(f)
    <3>1. f[1] \in Names
      BY DEF Frames
    <3>2. shot[f[1]] \in 0 .. MaxVersion /\ MaxVersion \in Nat
      BY <3>1, BoundsAssumption DEF EdgeTypes, CameraTypes
    <3> QED BY <3>2 DEF WrittenOnce
  <2> QED BY <2>1 DEF FilesKept, NothingLost, Safe, Settled
<1> QED BY <1>1, <1>2, EdgeTypesStep, FilesAreKept, PTL DEF EdgeSpec

----------------------------------------------------------------------------
(***************************************************************************)
(* RepeatsAreBounded: the frames.  What may go to the recognizer again, or  *)
(* did, is at most one frame for each restart and each failed removal.      *)
(***************************************************************************)
LEMMA NoMore ==
    ASSUME NEW S, IsFiniteSet(S), NEW T, T \subseteq S
    PROVE  /\ IsFiniteSet(T) /\ Cardinality(S) \in Nat /\ Cardinality(T) \in Nat
           /\ Cardinality(T) <= Cardinality(S)
  BY FS_Subset, FS_CardinalityType

LEMMA OneMore ==
    ASSUME NEW S, IsFiniteSet(S), NEW x, NEW T, T \subseteq S \cup {x}
    PROVE  /\ IsFiniteSet(T) /\ Cardinality(S) \in Nat /\ Cardinality(T) \in Nat
           /\ Cardinality(T) <= Cardinality(S) + 1
<1>1. IsFiniteSet(S \cup {x}) /\ Cardinality(S \cup {x}) <= Cardinality(S) + 1
      /\ Cardinality(S) \in Nat /\ Cardinality(S \cup {x}) \in Nat
  BY FS_AddElement, FS_CardinalityType
<1>2. IsFiniteSet(T) /\ Cardinality(T) <= Cardinality(S \cup {x}) /\ Cardinality(T) \in Nat
  BY <1>1, NoMore
<1> QED BY <1>1, <1>2

LEMMA OneLess ==
    ASSUME NEW S, IsFiniteSet(S), NEW x \in S, NEW T, T \subseteq S \ {x}
    PROVE  /\ IsFiniteSet(T) /\ Cardinality(S) \in Nat /\ Cardinality(T) \in Nat
           /\ Cardinality(T) + 1 <= Cardinality(S)
<1>1. IsFiniteSet(S \ {x}) /\ Cardinality(S \ {x}) = Cardinality(S) - 1
      /\ Cardinality(S) \in Nat /\ Cardinality(S \ {x}) \in Nat
  BY FS_RemoveElement, FS_CardinalityType
<1>2. IsFiniteSet(T) /\ Cardinality(T) <= Cardinality(S \ {x}) /\ Cardinality(T) \in Nat
  BY <1>1, NoMore
<1> QED BY <1>1, <1>2

Seen(f) == readings[f] > 0
ReadAgain == {f \in Frames : readings[f] > 1 \/ (Seen(f) /\ watch[f[1]] = f[2] /\ f # agent.frame)}

SeenAreShot == \A f \in Frames : Seen(f) => f[2] <= shot[f[1]]
RereadsArePaid == deleteAfter => IsFiniteSet(ReadAgain) /\ Cardinality(ReadAgain) <= count.crash + count.fault

\* Only the recognizer, the marking and a restart change the frame in hand.
LEMMA FrameStays ==
    ASSUME EdgeTypes, EdgeNext, \A n \in Names : ~Recognize(n), ~Mark, ~Crash
    PROVE  /\ agent'.frame = agent.frame /\ readings' = readings
           /\ \/ \E n \in Names : Shoot(n) /\ watch' = [watch EXCEPT ![n] = shot[n] + 1]
              \/ watch' = watch /\ shot' = shot
           /\ deleteAfter' = deleteAfter
           /\ processed' = processed \/ processed' = processed \cap Present
<1> USE DEF EdgeTypes
<1>t. agent \in Agent /\ (agent.pc # "spool" => agent.frame = NoFrame)
  BY DEF AgentTypes
<1>s. Started.frame = NoFrame /\ [Started EXCEPT !.pc = "frame", !.todo = {n \in Names : watch[n] > 0}].frame = NoFrame
  <2>1. PICK s \in Agent : s = Started
    BY StartedType
  <2> QED BY <2>1 DEF Started, Agent
<1>1. CASE Scan \/ KeepOnly
  BY <1>1, <1>s, <1>t DEF Scan, KeepOnly, history
<1>2. CASE Spool \/ ScanDone \/ Save \/ Flush \/ Delivered \/ GiveUp \/ Hold \/ SaveFails \/ LinkDown
  <2>1. agent'.frame = agent.frame
    BY <1>2, <1>t DEF Spool, ScanDone, Save, Flush, Delivered, GiveUp, Hold, SaveFails, LinkDown, Agent
  <2>2. readings' = readings /\ watch' = watch /\ shot' = shot /\ deleteAfter' = deleteAfter
    BY <1>2 DEF Spool, ScanDone, Save, Flush, Delivered, GiveUp, Hold, SaveFails, LinkDown, history
  <2>3. processed' = processed \/ processed' = processed \cap Present
    BY <1>2 DEF Spool, ScanDone, Save, Flush, Delivered, GiveUp, Hold, SaveFails, LinkDown
  <2> QED BY <2>1, <2>2, <2>3
<1>3. ASSUME NEW n \in Names, Skip(n)
      PROVE  agent'.frame = agent.frame /\ UNCHANGED <<readings, watch, shot, deleteAfter, processed>>
  BY <1>3, <1>t DEF Skip, history, Agent
<1>4. ASSUME NEW n \in Names, Shoot(n)
      PROVE  /\ agent' = agent /\ UNCHANGED <<readings, deleteAfter, processed>>
             /\ watch' = [watch EXCEPT ![n] = shot[n] + 1]
  BY <1>4 DEF Shoot, history
<1>5. ASSUME NEW c \in Calls, Send(c)
      PROVE  agent'.frame = agent.frame /\ UNCHANGED <<readings, watch, shot, deleteAfter, processed>>
  BY <1>5, <1>t DEF Send, history, Agent
<1>6. ASSUME NEW c \in Calls, Serve(c) \/ Fail(c)
      PROVE  UNCHANGED <<agent, readings, watch, shot, deleteAfter, processed>>
  BY <1>6 DEF Serve, Authenticate, Accept, Reject, Audit, Report, Fail, history
<1>7. CASE SuspendFeed \/ ReactivateFeed \/ ServerDies
  BY <1>7 DEF SuspendFeed, ReactivateFeed, ServerDies, history
<1> QED BY <1>1, <1>2, <1>3, <1>4, <1>5, <1>6, <1>7 DEF EdgeNext, AgentStep

\* Restarts and faults are counted.
LEMMA CountStep ==
    ASSUME EdgeTypes, EdgeNext
    PROVE  /\ count.crash \in Nat /\ count.fault \in Nat /\ count'.crash \in Nat /\ count'.fault \in Nat
           /\ count.crash <= count'.crash /\ count.fault <= count'.fault
           /\ Crash => count'.crash = count.crash + 1
           /\ Fault => count'.fault = count.fault + 1
<1> DEFINE T == [crash : 0 .. MaxCrashes, fault : 0 .. MaxFaults, suspension : Nat]
<1>b. MaxCrashes \in Nat /\ MaxFaults \in Nat
  BY BoundsAssumption
<1>t. count \in T /\ count' \in T
  BY TableStep DEF EdgeTypes, TableTypes
<1>n. count.crash \in Nat /\ count.fault \in Nat /\ count'.crash \in Nat /\ count'.fault \in Nat
  BY <1>b, <1>t
<1>c. Crash => count'.crash = count.crash + 1 /\ count'.fault = count.fault
  BY <1>t DEF Crash
<1>f. Fault => count'.fault = count.fault + 1 /\ count'.crash = count.crash
  BY <1>t DEF Fault
<1>s. SuspendFeed => count'.fault = count.fault /\ count'.crash = count.crash
  BY <1>t DEF SuspendFeed
<1>1. Crash \/ Fault \/ SuspendFeed \/ UNCHANGED count
  <2>1. ASSUME NEW c \in Calls, Send(c) \/ Serve(c) \/ Fail(c) PROVE Fault \/ UNCHANGED count
    BY <2>1 DEF Send, Serve, Authenticate, Accept, Reject, Audit, Report, Fail
  <2>2. ASSUME NEW n \in Names, Skip(n) \/ Recognize(n) \/ Shoot(n) PROVE UNCHANGED count
    BY <2>2 DEF Skip, Recognize, Shoot
  <2>3. Scan \/ Spool \/ Mark \/ ScanDone \/ Save \/ Flush \/ Delivered \/ GiveUp \/ Hold \/ KeepOnly => Fault \/ UNCHANGED count
    BY DEF Scan, Spool, Mark, ScanDone, Save, Flush, Delivered, GiveUp, Hold, KeepOnly
  <2>4. ReactivateFeed \/ SaveFails \/ LinkDown \/ ServerDies => Fault \/ UNCHANGED count
    BY DEF ReactivateFeed, SaveFails, LinkDown, ServerDies
  <2> QED BY <2>1, <2>2, <2>3, <2>4 DEF EdgeNext, AgentStep
<1> QED BY <1>n, <1>c, <1>f, <1>s, <1>1

LEMMA SeenAreShotStep == ASSUME EdgeTypes, SeenAreShot, EdgeNext PROVE SeenAreShot'
<1> USE DEF EdgeTypes
<1>t. readings \in [Frames -> Nat] /\ readings' \in [Frames -> Nat]
  BY TableStep DEF TableTypes
<1> SUFFICES ASSUME NEW f \in Frames, readings'[f] > 0 PROVE f[2] <= shot'[f[1]]
  BY DEF SeenAreShot, Seen
<1>f. f[1] \in Names /\ f[2] \in 1 .. MaxVersion /\ MaxVersion \in Nat /\ shot[f[1]] \in 0 .. MaxVersion
  BY BoundsAssumption DEF Frames, CameraTypes
<1>g. shot[f[1]] \in Nat /\ f[2] \in Nat
  BY <1>f
<1>1. ASSUME NEW n \in Names, Recognize(n) PROVE f[2] <= shot'[f[1]]
  <2>1. /\ readings' = [readings EXCEPT ![<<n, watch[n]>>] = @ + 1] /\ shot' = shot
        /\ n \in agent.todo
    BY <1>1 DEF Recognize
  <2>2. CASE f = <<n, watch[n]>>
    <3>1. f[1] = n /\ f[2] = watch[n]
      BY <2>2
    <3>2. watch[n] > 0 /\ watch[n] \in {0, shot[n]}
      BY <2>1 DEF AgentTypes, CameraTypes
    <3> QED BY <1>g, <2>1, <3>1, <3>2
  <2>3. CASE f # <<n, watch[n]>>
    <3>1. readings'[f] = readings[f]
      BY <1>t, <2>1, <2>3
    <3> QED BY <2>1, <3>1 DEF SeenAreShot, Seen
  <2> QED BY <2>2, <2>3
<1>2. CASE readings' = readings
  <2>1. f[2] <= shot[f[1]]
    BY <1>2 DEF SeenAreShot, Seen
  <2>2. shot' = shot \/ \E n \in Names : shot' = [shot EXCEPT ![n] = @ + 1]
    <3>1. CASE Mark \/ Crash
      BY <3>1 DEF Mark, Crash
    <3>2. ASSUME NEW n \in Names, Shoot(n) PROVE shot' = [shot EXCEPT ![n] = @ + 1]
      BY <3>2 DEF Shoot
    <3>3. ASSUME NEW n \in Names, Recognize(n) PROVE shot' = shot
      BY <3>3 DEF Recognize
    <3> QED BY <3>1, <3>2, <3>3, FrameStays
  <2>3. shot'[f[1]] = shot[f[1]] \/ shot'[f[1]] = shot[f[1]] + 1
    BY <1>f, <2>2 DEF CameraTypes
  <2> QED BY <1>g, <2>1, <2>3
<1>3. CASE Mark \/ Crash
  BY <1>2, <1>3 DEF Mark, Crash, history
<1> QED BY <1>1, <1>2, <1>3, FrameStays

LEMMA RereadsArePaidStep ==
    ASSUME EdgeTypes, SeenAreShot, RereadsArePaid, EdgeNext PROVE RereadsArePaid'
<1> USE DEF EdgeTypes
<1>t. readings \in [Frames -> Nat] /\ agent \in Agent /\ (agent.pc # "spool" => agent.frame = NoFrame)
  BY DEF TableTypes, AgentTypes
<1>f. ASSUME NEW f \in Frames PROVE f[1] \in Names /\ f[2] \in Nat \ {0} /\ f = <<f[1], f[2]>> /\ f # NoFrame
  BY BoundsAssumption, EdgeNamesAssumption DEF Frames
<1>d. deleteAfter' = deleteAfter
  BY FrameStays DEF Mark, Crash, Recognize
<1> SUFFICES ASSUME deleteAfter
             PROVE  IsFiniteSet(ReadAgain') /\ Cardinality(ReadAgain') <= count'.crash + count'.fault
  BY <1>d DEF RereadsArePaid
<1>i. IsFiniteSet(ReadAgain) /\ Cardinality(ReadAgain) <= count.crash + count.fault
  BY DEF RereadsArePaid
<1>s. ASSUME ReadAgain' \subseteq ReadAgain
      PROVE  IsFiniteSet(ReadAgain') /\ Cardinality(ReadAgain') <= count'.crash + count'.fault
  <2>1. IsFiniteSet(ReadAgain') /\ Cardinality(ReadAgain) \in Nat /\ Cardinality(ReadAgain') \in Nat
        /\ Cardinality(ReadAgain') <= Cardinality(ReadAgain)
    BY <1>i, <1>s, NoMore
  <2> HIDE DEF EdgeTypes
  <2> QED BY <1>i, <2>1, CountStep
<1>p. ASSUME ReadAgain' \subseteq ReadAgain \cup {agent.frame}, Crash \/ Fault
      PROVE  IsFiniteSet(ReadAgain') /\ Cardinality(ReadAgain') <= count'.crash + count'.fault
  <2>1. IsFiniteSet(ReadAgain') /\ Cardinality(ReadAgain) \in Nat /\ Cardinality(ReadAgain') \in Nat
        /\ Cardinality(ReadAgain') <= Cardinality(ReadAgain) + 1
    BY <1>i, <1>p, OneMore
  <2> HIDE DEF EdgeTypes
  <2> QED BY <1>i, <1>p, <2>1, CountStep
<1>1. ASSUME NEW n \in Names, Recognize(n) PROVE ReadAgain' \subseteq ReadAgain
  <2>1. PICK g : g = <<n, watch[n]>>
    OBVIOUS
  <2>2. readings' = [readings EXCEPT ![g] = @ + 1] /\ watch' = watch /\ agent.frame = NoFrame
    BY <1>1, <1>t, <2>1 DEF Recognize
  <2>3. agent'.frame = g
    BY <1>1, <1>t, <2>1 DEF Recognize, Agent
  <2>4. ASSUME NEW f \in Frames, f \in ReadAgain' PROVE f \in ReadAgain
    <3>1. CASE f = g
      <4>1. readings'[f] > 1
        BY <2>3, <2>4, <3>1 DEF ReadAgain
      <4>2. readings[f] > 0
        BY <1>t, <2>2, <3>1, <4>1
      <4>3. watch[f[1]] = f[2] /\ f # agent.frame
        BY <1>f, <2>1, <2>2, <3>1
      <4> QED BY <4>2, <4>3 DEF ReadAgain, Seen
    <3>2. CASE f # g
      <4>1. readings'[f] = readings[f] /\ f # agent.frame
        BY <1>f, <1>t, <2>2, <3>2
      <4> QED BY <2>2, <2>4, <4>1 DEF ReadAgain, Seen
    <3> QED BY <3>1, <3>2
  <2> QED BY <2>4 DEF ReadAgain
<1>2. CASE Mark
  <2>1. PICK n \in Names : n = agent.frame[1] /\ agent.frame \in Frames
    BY <1>2 DEF Mark, AgentTypes, Agent
  <2>2. readings' = readings /\ (watch' = [watch EXCEPT ![n] = 0] \/ (Fault /\ watch' = watch))
    BY <1>2, <2>1 DEF Mark, Removed, history
  <2>3. CASE Fault /\ watch' = watch
    <3>1. ReadAgain' \subseteq ReadAgain \cup {agent.frame}
      BY <2>2, <2>3 DEF ReadAgain, Seen
    <3> QED BY <1>p, <2>3, <3>1
  <2>4. CASE watch' = [watch EXCEPT ![n] = 0]
    <3>1. ASSUME NEW f \in Frames, f \in ReadAgain' PROVE f \in ReadAgain
      <4>1. CASE readings[f] > 1
        BY <4>1 DEF ReadAgain
      <4>2. CASE readings[f] > 0 /\ watch'[f[1]] = f[2]
        <5>1. f[1] # n
          BY <1>f, <2>4, <4>2 DEF CameraTypes
        <5>2. watch[f[1]] = f[2] /\ f # agent.frame
          BY <1>f, <2>1, <2>4, <4>2, <5>1 DEF CameraTypes
        <5> QED BY <4>2, <5>2 DEF ReadAgain, Seen
      <4> QED BY <2>2, <3>1, <4>1, <4>2 DEF ReadAgain, Seen
    <3> QED BY <1>s, <3>1 DEF ReadAgain
  <2> QED BY <2>2, <2>3, <2>4
<1>3. CASE Crash
  <2>1. readings' = readings /\ watch' = watch
    BY <1>3 DEF Crash, history
  <2>2. ReadAgain' \subseteq ReadAgain \cup {agent.frame}
    BY <2>1 DEF ReadAgain, Seen
  <2> QED BY <1>3, <1>p, <2>2
<1>4. ASSUME agent'.frame = agent.frame, readings' = readings, watch' = watch
      PROVE  ReadAgain' \subseteq ReadAgain
  BY <1>4 DEF ReadAgain, Seen
<1>5. ASSUME agent'.frame = agent.frame, readings' = readings, NEW n \in Names, Shoot(n)
      PROVE  ReadAgain' \subseteq ReadAgain
  <2>1. watch' = [watch EXCEPT ![n] = shot[n] + 1]
    BY <1>5 DEF Shoot
  <2>2. ASSUME NEW f \in Frames, f \in ReadAgain' PROVE f \in ReadAgain
    <3>1. CASE readings[f] > 1
      BY <3>1 DEF ReadAgain
    <3>2. CASE readings[f] > 0 /\ watch'[f[1]] = f[2] /\ f # agent.frame
      <4>1. f[2] <= shot[f[1]] /\ shot[f[1]] \in 0 .. MaxVersion
        BY <1>f, <3>2 DEF SeenAreShot, Seen, CameraTypes
      <4>2. f[1] # n
        <5>1. f[1] = n => f[2] = shot[f[1]] + 1
          BY <1>f, <2>1, <3>2 DEF CameraTypes
        <5>2. shot[f[1]] \in Nat /\ f[2] \in Nat
          BY <1>f, <4>1, BoundsAssumption
        <5> QED BY <4>1, <5>1, <5>2
      <4>3. watch[f[1]] = f[2]
        BY <1>f, <2>1, <3>2, <4>2 DEF CameraTypes
      <4> QED BY <3>2, <4>3 DEF ReadAgain, Seen
    <3> QED BY <1>5, <2>2, <3>1, <3>2 DEF ReadAgain, Seen
  <2> QED BY <2>2 DEF ReadAgain
<1>6. CASE (\A n \in Names : ~Recognize(n)) /\ ~Mark /\ ~Crash
  BY <1>4, <1>5, <1>6, <1>s, FrameStays
<1> QED BY <1>1, <1>2, <1>3, <1>6, <1>s

----------------------------------------------------------------------------
(***************************************************************************)
(* RepeatsAreBounded: the reads.  As long as the agent is not restarted it  *)
(* knows the frames it has seen; so a frame's reads enter the spool once,   *)
(* and are in one place at a time, but for what a fault leaves behind.      *)
(***************************************************************************)
Known ==
    count.crash = 0 => \A f \in Frames :
        Seen(f) /\ watch[f[1]] = f[2] => f \in processed \/ f = agent.frame

LEMMA KnownStep == ASSUME EdgeTypes, SeenAreShot, Known, EdgeNext PROVE Known'
<1> USE DEF EdgeTypes
<1>t. readings \in [Frames -> Nat] /\ agent \in Agent /\ (agent.pc # "spool" => agent.frame = NoFrame)
  BY DEF TableTypes, AgentTypes
<1> SUFFICES ASSUME count'.crash = 0, NEW f \in Frames, Seen(f)', watch'[f[1]] = f[2]
             PROVE  f \in processed' \/ f = agent'.frame
  BY DEF Known
<1>f. f[1] \in Names /\ f[2] \in Nat \ {0} /\ f = <<f[1], f[2]>> /\ f # NoFrame
  BY BoundsAssumption, EdgeNamesAssumption DEF Frames
<1>c. count.crash = 0 /\ ~Crash
  BY CountStep
<1>k. Seen(f) /\ watch[f[1]] = f[2] => f \in processed \/ f = agent.frame
  BY <1>c DEF Known
<1>1. ASSUME NEW n \in Names, Recognize(n) PROVE f \in processed' \/ f = agent'.frame
  <2>1. PICK g : g = <<n, watch[n]>>
    OBVIOUS
  <2>2. /\ readings' = [readings EXCEPT ![g] = @ + 1] /\ watch' = watch /\ processed' = processed
        /\ agent.frame = NoFrame
    BY <1>1, <1>t, <2>1 DEF Recognize
  <2>3. agent'.frame = g
    BY <1>1, <1>t, <2>1 DEF Recognize, Agent
  <2>4. CASE f # g
    <3>1. readings'[f] = readings[f]
      BY <1>t, <2>2, <2>4
    <3> QED BY <1>f, <1>k, <2>2, <3>1 DEF Seen
  <2> QED BY <2>3, <2>4
<1>2. CASE Mark
  <2>1. PICK n \in Names : n = agent.frame[1]
    BY <1>2 DEF Mark, AgentTypes, Agent
  <2>2. /\ readings' = readings /\ processed' = processed \cup {<<n, watch[n]>>}
        /\ watch' = watch \/ watch' = [watch EXCEPT ![n] = 0]
    BY <1>2, <2>1 DEF Mark, Removed, CameraTypes, history
  <2>3. watch[f[1]] = f[2]
    BY <1>f, <2>2 DEF CameraTypes
  <2>4. f = agent.frame => f = <<n, watch[n]>>
    BY <1>f, <2>1, <2>3
  <2> QED BY <1>k, <2>2, <2>3, <2>4 DEF Seen
<1>3. CASE (\A n \in Names : ~Recognize(n)) /\ ~Mark
  <2>1. /\ agent'.frame = agent.frame /\ readings' = readings
        /\ processed' = processed \/ processed' = processed \cap Present
    BY <1>3, <1>c, FrameStays
  <2>2. watch[f[1]] = f[2]
    <3>1. CASE watch' = watch
      BY <3>1
    <3>2. ASSUME NEW n \in Names, watch' = [watch EXCEPT ![n] = shot[n] + 1] PROVE watch[f[1]] = f[2]
      <4>1. f[2] <= shot[f[1]] /\ shot[f[1]] \in Nat
        BY <1>f, <2>1, BoundsAssumption DEF SeenAreShot, Seen, CameraTypes
      <4>2. f[1] # n
        BY <1>f, <3>2, <4>1 DEF CameraTypes
      <4> QED BY <1>f, <3>2, <4>2 DEF CameraTypes
    <3> QED BY <1>3, <1>c, <3>1, <3>2, FrameStays
  <2>3. f \in Present
    <3>1. f[1] \in {m \in Names : watch[m] > 0} /\ f = <<f[1], watch[f[1]]>>
      BY <1>f, <2>2
    <3> QED BY <3>1 DEF Present
  <2> QED BY <1>k, <2>1, <2>2, <2>3 DEF Seen
<1> QED BY <1>1, <1>2, <1>3

\* A read no frame's recognition brought is nowhere.
Nowhere(r) ==
    /\ stored[r] = 0
    /\ r \notin Elements(spool) /\ r \notin Elements(agent.unread)
    /\ r \notin Elements(agent.pending) /\ r \notin Elements(agent.rest)
    /\ \A c \in Calls : r \notin Elements(call[c].batch)
Unseen == \A r \in Reads : readings[FrameOf(r)] = 0 => Nowhere(r)

LEMMA Untouched ==
    ASSUME EdgeTypes, EdgeNext, NEW r \in Reads, Nowhere(r),
           \A n \in Names : Recognize(n) => r \notin ReadsOf(<<n, watch[n]>>)
    PROVE  Nowhere(r)'
<1> USE DEF EdgeTypes
<1>t. /\ agent \in Agent /\ agent.unread \in Seq(Reads) /\ agent.pending \in Seq(Reads) /\ spool \in Seq(Reads)
      /\ \A c \in Calls : call[c] \in Request
  BY DEF AgentTypes, Agent, HandlerTypes
<1>e. Elements(<<>>) = {}
  BY DEF Elements
<1>f. Free.batch = <<>> /\ Started.unread = <<>> /\ Started.pending = <<>> /\ Started.rest = <<>>
  BY DEF Free, Started
<1>p. r \notin Elements(Batch) /\ r \notin Elements(Rest)
  BY PendingIsSplit DEF Nowhere
<1>s. ASSUME agent'.unread = agent.unread, agent'.pending = agent.pending, agent'.rest = agent.rest,
             spool' = spool, stored'[r] = 0, \A c \in Calls : r \notin Elements(call'[c].batch)
      PROVE  Nowhere(r)'
  BY <1>s DEF Nowhere
<1>1. ASSUME NEW n \in Names, Recognize(n) PROVE Nowhere(r)'
  <2>1. PICK s : s = [i \in 1 .. ReadsIn[n] |-> <<n, watch[n], i>>]
    OBVIOUS
  <2>2. watch[n] \in 1 .. MaxVersion
    <3>1. watch[n] > 0 /\ watch[n] \in 0 .. MaxVersion
      BY <1>1 DEF Recognize, AgentTypes, CameraTypes
    <3> QED BY <3>1, BoundsAssumption
  <2>3. r \notin Elements(s)
    BY <1>1, <2>1, <2>2, RecognizedElements
  <2>4. /\ agent'.unread = s /\ agent'.pending = agent.pending /\ agent'.rest = agent.rest
        /\ UNCHANGED <<spool, stored, call>>
    BY <1>1, <1>t, <2>1 DEF Recognize, Agent, files, tables
  <2> QED BY <2>3, <2>4 DEF Nowhere
<1>2. CASE Spool
  <2>1. agent.unread # <<>> /\ spool' = Append(spool, Head(agent.unread)) /\ UNCHANGED <<stored, call>>
    BY <1>2 DEF Spool, Appended, tables
  <2>2. /\ agent'.unread = Tail(agent.unread) /\ agent'.pending = agent.pending /\ agent'.rest = agent.rest
    BY <1>2, <1>t DEF Spool, Agent
  <2>3. Head(agent.unread) \in Reads /\ Elements(agent.unread) = {Head(agent.unread)} \cup Elements(Tail(agent.unread))
    BY <1>t, <2>1, TakenElements
  <2>4. Elements(spool') = Elements(spool) \cup {Head(agent.unread)}
    BY <1>t, <2>1, <2>3, SpooledElements
  <2> QED BY <2>1, <2>2, <2>3, <2>4 DEF Nowhere
<1>3. CASE Flush
  <2>1. /\ agent'.unread = agent.unread /\ agent'.pending = spool /\ agent'.rest = agent.rest
        /\ UNCHANGED <<spool, stored, call>>
    BY <1>3, <1>t DEF Flush, Agent, files, tables
  <2> QED BY <2>1 DEF Nowhere
<1>4. ASSUME NEW c \in Calls, Send(c) PROVE Nowhere(r)'
  <2>1. /\ agent'.unread = agent.unread /\ agent'.pending = agent.pending /\ agent'.rest = Rest
        /\ UNCHANGED <<spool, stored>>
    BY <1>4, <1>t DEF Send, Agent, files, tables
  <2>2. PICK f \in Request : f = Free
    BY StartedType
  <2>3. call' = [call EXCEPT ![c] = [f EXCEPT !.pc = "authenticate", !.batch = Batch]]
    BY <1>4, <2>2 DEF Send
  <2>4. ASSUME NEW d \in Calls PROVE call'[d].batch \in {Batch, call[d].batch}
    BY <2>3 DEF Request, HandlerTypes
  <2> QED BY <1>p, <2>1, <2>4 DEF Nowhere
<1>5. CASE Delivered \/ GiveUp \/ Hold \/ LinkDown
  <2>1. /\ agent'.unread = agent.unread /\ agent'.pending \in {agent.pending, agent.rest} /\ agent'.rest = agent.rest
        /\ UNCHANGED <<spool, stored>>
    BY <1>5, <1>t DEF Delivered, GiveUp, Hold, LinkDown, Held, Agent, files, tables
  <2>2. ASSUME NEW d \in Calls PROVE call'[d] \in {Free, call[d]}
    BY <1>5 DEF Delivered, GiveUp, Hold, LinkDown, Answered, HandlerTypes
  <2> QED BY <1>e, <1>f, <2>1, <2>2 DEF Nowhere
<1>6. CASE KeepOnly
  <2>1. agent' = Started /\ spool' = agent.pending /\ UNCHANGED <<stored, call>>
    BY <1>6 DEF KeepOnly, Remaining, tables
  <2> QED BY <1>e, <1>f, <2>1 DEF Nowhere
<1>7. CASE Scan
  <2>1. PICK s \in Agent : s = Started
    BY StartedType
  <2>2. agent' = [s EXCEPT !.pc = "frame", !.todo = {n \in Names : watch[n] > 0}] /\ UNCHANGED <<spool, stored, call>>
    BY <1>7, <2>1 DEF Scan, files, tables
  <2>3. agent'.unread = <<>> /\ agent'.pending = <<>> /\ agent'.rest = <<>>
    BY <1>f, <2>1, <2>2 DEF Agent
  <2> QED BY <1>e, <2>2, <2>3 DEF Nowhere
<1>8. CASE Crash
  <2>1. agent' = Started /\ UNCHANGED <<spool, stored>>
    BY <1>8 DEF Crash, files, tables
  <2>2. ASSUME NEW d \in Calls PROVE call'[d] \in {Free, call[d]}
    BY <1>8 DEF Crash, HandlerTypes
  <2> QED BY <1>e, <1>f, <2>1, <2>2 DEF Nowhere
<1>9. CASE Mark \/ ScanDone \/ Save \/ SaveFails
  <2>1. /\ agent'.unread = agent.unread /\ agent'.pending = agent.pending /\ agent'.rest = agent.rest
        /\ UNCHANGED <<spool, stored, call>>
    BY <1>9, <1>t DEF Mark, ScanDone, Save, SaveFails, Agent, files, tables
  <2> QED BY <1>s, <2>1 DEF Nowhere
<1>10. ASSUME NEW n \in Names, Skip(n) PROVE Nowhere(r)'
  <2>1. /\ agent'.unread = agent.unread /\ agent'.pending = agent.pending /\ agent'.rest = agent.rest
        /\ UNCHANGED <<spool, stored, call>>
    BY <1>10, <1>t DEF Skip, Agent, files, tables
  <2> QED BY <1>s, <2>1 DEF Nowhere
<1>11. ASSUME UNCHANGED <<agent, spool, stored, call>> PROVE Nowhere(r)'
  BY <1>11, <1>s DEF Nowhere
<1>12. ASSUME NEW n \in Names, Shoot(n) PROVE UNCHANGED <<agent, spool, stored, call>>
  BY <1>12 DEF Shoot, files, tables
<1>13. CASE SuspendFeed \/ ReactivateFeed
  BY <1>11, <1>13 DEF SuspendFeed, ReactivateFeed, files, tables
<1>14. CASE ServerDies
  <2>1. UNCHANGED <<agent, spool, stored>> /\ \A c \in Calls : call'[c] = Free
    BY <1>14 DEF ServerDies, files, tables
  <2> QED BY <1>e, <1>f, <1>s, <2>1 DEF Nowhere
<1>15. ASSUME NEW c \in Calls, Serve(c) \/ Fail(c) PROVE Nowhere(r)'
  <2>1. agent' = agent /\ spool' = spool
    BY <1>15 DEF Serve, Fail, Authenticate, Accept, Reject, Audit, Report, files
  <2>2. stored'[r] = 0
    <3>1. CASE Accept(c)
      <4>1. Item(c) \in Elements(call[c].batch) /\ stored' = [stored EXCEPT ![Item(c)] = @ + 1]
        BY <3>1, AtItem DEF Accept
      <4>2. Item(c) # r
        BY <4>1 DEF Nowhere
      <4> QED BY <4>1, <4>2 DEF Nowhere, TableTypes
    <3>2. CASE ~Accept(c)
      BY <1>15, <3>2 DEF Serve, Fail, Authenticate, Reject, Audit, Report, tables, Nowhere
    <3> QED BY <3>1, <3>2
  <2>3. ASSUME NEW d \in Calls PROVE r \notin Elements(call'[d].batch)
    <3>1. CASE d # c
      <4>1. call'[d] = call[d]
        BY <1>15, <3>1 DEF HandlerTypes, Serve, Fail, Authenticate, Accept, Reject, Audit, Report
      <4> QED BY <4>1 DEF Nowhere
    <3>2. CASE d = c
      <4>1. call'[c].batch \in {<<>>, call[c].batch}
        <5>1. CASE Accept(c) \/ Reject(c) \/ Audit(c)
          BY <1>t, <5>1 DEF HandlerTypes, Accept, Reject, Audit, Request
        <5>2. PICK h : h = call'[c]
          OBVIOUS
        <5>3. CASE h \in {Reply(c, "201"), Reply(c, "400"), Reply(c, "401"), Reply(c, "413"), Reply(c, "500")}
          <6>1. \A answer \in {"201", "400", "401", "413", "500"} : Reply(c, answer) \in {Free, [call[c] EXCEPT !.pc = "answered", !.answer = answer]}
            BY DEF Reply
          <6>2. h = Free \/ \E answer \in {"201", "400", "401", "413", "500"} : h = [call[c] EXCEPT !.pc = "answered", !.answer = answer]
            BY <5>3, <6>1
          <6>3. h = Free \/ h.batch = call[c].batch
            BY <1>t, <6>2 DEF Request
          <6> QED BY <1>f, <5>2, <6>3
        <5>4. CASE h = [call[c] EXCEPT !.pc = "items"]
          BY <1>t, <5>2, <5>4 DEF Request
        <5>5. Authenticate(c) \/ Report(c) \/ Fail(c) =>
                \/ h \in {Reply(c, "201"), Reply(c, "400"), Reply(c, "401"), Reply(c, "413"), Reply(c, "500")}
                \/ h = [call[c] EXCEPT !.pc = "items"]
          BY <5>2 DEF HandlerTypes, Authenticate, Report, Fail
        <5> QED BY <1>15, <5>1, <5>3, <5>4, <5>5 DEF Serve
      <4> QED BY <1>e, <3>2, <4>1 DEF Nowhere
    <3> QED BY <3>1, <3>2
  <2> QED BY <1>s, <2>1, <2>2, <2>3
<1> QED BY <1>1, <1>2, <1>3, <1>4, <1>5, <1>6, <1>7, <1>8, <1>9, <1>10, <1>11, <1>12, <1>13, <1>14, <1>15 DEF EdgeNext, AgentStep

LEMMA UnseenStep == ASSUME EdgeTypes, Unseen, EdgeNext PROVE Unseen'
<1> SUFFICES ASSUME NEW r \in Reads, readings'[FrameOf(r)] = 0 PROVE Nowhere(r)'
  BY DEF Unseen, FrameOf
<1>t. readings \in [Frames -> Nat] /\ FrameOf(r) \in Frames
  BY FrameOfRead DEF EdgeTypes, TableTypes
<1>1. ASSUME NEW n \in Names, Recognize(n) PROVE readings[FrameOf(r)] = 0 /\ r \notin ReadsOf(<<n, watch[n]>>)
  <2>1. PICK g : g = <<n, watch[n]>>
    OBVIOUS
  <2>2. readings' = [readings EXCEPT ![g] = @ + 1]
    BY <1>1, <2>1 DEF Recognize
  <2>3. g \in Frames
    <3>1. watch[n] > 0 /\ watch[n] \in 0 .. MaxVersion
      BY <1>1 DEF Recognize, EdgeTypes, AgentTypes, CameraTypes
    <3> QED BY <2>1, <3>1, BoundsAssumption DEF Frames
  <2>4. FrameOf(r) # g
    BY <1>t, <2>2
  <2>5. readings[FrameOf(r)] = 0
    BY <1>t, <2>2, <2>4
  <2> QED BY <2>1, <2>3, <2>4, <2>5, FrameOfRead
<1>2. CASE \A n \in Names : ~Recognize(n)
  <2>1. readings' = readings
    BY <1>2, FrameStays DEF Mark, Crash, history
  <2> QED BY <1>2, <2>1, Untouched DEF Unseen
<1>3. CASE \E n \in Names : Recognize(n)
  <2>1. readings[FrameOf(r)] = 0
    BY <1>1, <1>3
  <2>2. \A n \in Names : Recognize(n) => r \notin ReadsOf(<<n, watch[n]>>)
    BY <1>1
  <2> QED BY <2>1, <2>2, Untouched DEF Unseen
<1> QED BY <1>2, <1>3

\* Without a restart each queue, and each batch, holds a read once.
QueuesOnce ==
    count.crash = 0 =>
        /\ Injective(spool) /\ Injective(agent.unread) /\ Injective(agent.pending)
        /\ Elements(spool) \cap Elements(agent.unread) = {}
        /\ \A c \in Calls : Injective(call[c].batch)

\* A handler's batch is one it had, the agent's, or none.
LEMMA BatchStep ==
    ASSUME EdgeTypes, EdgeNext, NEW c \in Calls
    PROVE  call'[c].batch \in {<<>>, Batch, call[c].batch}
<1> USE DEF EdgeTypes
<1>t. \A d \in Calls : call[d] \in Request
  BY DEF HandlerTypes
<1>f. Free.batch = <<>>
  BY DEF Free
<1>1. ASSUME NEW d \in Calls, Send(d) PROVE call'[c].batch \in {Batch, call[c].batch}
  <2>1. PICK f \in Request : f = Free
    BY StartedType
  <2>2. call' = [call EXCEPT ![d] = [f EXCEPT !.pc = "authenticate", !.batch = Batch]]
    BY <1>1, <2>1 DEF Send
  <2> QED BY <1>t, <2>2 DEF Request, HandlerTypes
<1>2. CASE Delivered \/ GiveUp \/ Hold \/ LinkDown \/ Crash \/ ServerDies
  <2>1. call'[c] \in {Free, call[c]}
    BY <1>2 DEF Delivered, GiveUp, Hold, LinkDown, Answered, Crash, ServerDies, HandlerTypes
  <2> QED BY <1>f, <2>1
<1>3. ASSUME NEW d \in Calls, Serve(d) \/ Fail(d) PROVE call'[c].batch \in {<<>>, call[c].batch}
  <2>1. CASE c # d
    <3>1. call'[c] = call[c]
      BY <1>3, <2>1 DEF HandlerTypes, Serve, Fail, Authenticate, Accept, Reject, Audit, Report
    <3> QED BY <3>1
  <2>2. CASE c = d
    <3>1. CASE Accept(c) \/ Reject(c) \/ Audit(c)
      BY <1>t, <3>1 DEF HandlerTypes, Accept, Reject, Audit, Request
    <3>2. PICK h : h = call'[c]
      OBVIOUS
    <3>3. CASE h \in {Reply(c, "201"), Reply(c, "400"), Reply(c, "401"), Reply(c, "413"), Reply(c, "500")}
      <4>1. \A answer \in {"201", "400", "401", "413", "500"} :
              Reply(c, answer) \in {Free, [call[c] EXCEPT !.pc = "answered", !.answer = answer]}
        BY DEF Reply
      <4>2. h = Free \/ \E answer \in {"201", "400", "401", "413", "500"} :
                           h = [call[c] EXCEPT !.pc = "answered", !.answer = answer]
        BY <3>3, <4>1
      <4>3. h = Free \/ h.batch = call[c].batch
        BY <1>t, <4>2 DEF Request
      <4> QED BY <1>f, <3>2, <4>3
    <3>4. CASE h = [call[c] EXCEPT !.pc = "items"]
      BY <1>t, <3>2, <3>4 DEF Request
    <3>5. Authenticate(c) \/ Report(c) \/ Fail(c) =>
            \/ h \in {Reply(c, "201"), Reply(c, "400"), Reply(c, "401"), Reply(c, "413"), Reply(c, "500")}
            \/ h = [call[c] EXCEPT !.pc = "items"]
      BY <3>2 DEF HandlerTypes, Authenticate, Report, Fail
    <3> QED BY <1>3, <2>2, <3>1, <3>3, <3>4, <3>5 DEF Serve
  <2> QED BY <2>1, <2>2
<1>4. ASSUME UNCHANGED call PROVE call'[c].batch = call[c].batch
  BY <1>4
<1>5. ASSUME NEW n \in Names, Skip(n) \/ Recognize(n) \/ Shoot(n) PROVE UNCHANGED call
  BY <1>5 DEF Skip, Recognize, Shoot
<1>6. ASSUME Scan \/ Spool \/ Mark \/ ScanDone \/ Save \/ Flush \/ KeepOnly PROVE UNCHANGED call
  BY <1>6 DEF Scan, Spool, Mark, ScanDone, Save, Flush, KeepOnly
<1>7. ASSUME SuspendFeed \/ ReactivateFeed \/ SaveFails PROVE UNCHANGED call
  BY <1>7 DEF SuspendFeed, ReactivateFeed, SaveFails
<1> QED BY <1>1, <1>2, <1>3, <1>4, <1>5, <1>6, <1>7 DEF EdgeNext, AgentStep

\* What the recognizer brings, without a restart, has never been anywhere.
LEMMA RecognizedIsNew ==
    ASSUME EdgeTypes, Unseen, Known, count.crash = 0, NEW n \in Names, Recognize(n)
    PROVE  \A r \in Reads : r \in ReadsOf(<<n, watch[n]>>) => Nowhere(r)
<1> DEFINE f == <<n, watch[n]>>
<1>1. f \in Frames /\ watch[f[1]] = f[2]
  <2>1. watch[n] > 0 /\ watch[n] \in 0 .. MaxVersion
    BY DEF Recognize, EdgeTypes, AgentTypes, CameraTypes
  <2> QED BY <2>1, BoundsAssumption DEF Frames
<1>2. f \notin processed /\ f # agent.frame
  <2>1. f # NoFrame
    BY <1>1, EdgeNamesAssumption
  <2> QED BY <2>1 DEF Recognize, EdgeTypes, AgentTypes
<1>3. readings[f] = 0
  <2>1. readings[f] \in Nat
    BY <1>1 DEF EdgeTypes, TableTypes
  <2>2. ~Seen(f)
    BY <1>1, <1>2 DEF Known
  <2> QED BY <2>1, <2>2 DEF Seen
<1> HIDE DEF f
<1>4. \A r \in Reads : r \in ReadsOf(f) => FrameOf(r) = f
  BY <1>1, FrameOfRead
<1>5. \A r \in Reads : r \in ReadsOf(f) => Nowhere(r)
  BY <1>3, <1>4 DEF Unseen
<1> QED BY <1>5 DEF f

LEMMA QueuesOnceStep ==
    ASSUME EdgeTypes, WaitsForBatch, Unseen, Known, QueuesOnce, EdgeNext PROVE QueuesOnce'
<1> USE DEF EdgeTypes
<1> SUFFICES ASSUME count'.crash = 0
             PROVE  /\ Injective(spool') /\ Injective(agent'.unread) /\ Injective(agent'.pending)
                    /\ Elements(spool') \cap Elements(agent'.unread) = {}
                    /\ \A c \in Calls : Injective(call'[c].batch)
  BY DEF QueuesOnce
<1>c. count.crash = 0 /\ ~Crash
  BY CountStep
<1>q. /\ Injective(spool) /\ Injective(agent.unread) /\ Injective(agent.pending)
      /\ Elements(spool) \cap Elements(agent.unread) = {}
      /\ \A c \in Calls : Injective(call[c].batch)
  BY <1>c DEF QueuesOnce
<1>t. /\ agent \in Agent /\ agent.unread \in Seq(Reads) /\ agent.pending \in Seq(Reads) /\ spool \in Seq(Reads)
      /\ agent.pc # "spool" => agent.unread = <<>>
  BY DEF AgentTypes, Agent
<1>e. Elements(<<>>) = {} /\ Injective(<<>>)
  BY DEF Elements, Injective
<1>f. Started.unread = <<>> /\ Started.pending = <<>>
  BY DEF Started
<1> DEFINE Good == /\ Injective(spool') /\ Injective(agent'.unread) /\ Injective(agent'.pending)
                   /\ Elements(spool') \cap Elements(agent'.unread) = {}
<1>b. \A c \in Calls : Injective(call'[c].batch)
  BY <1>e, <1>q, BatchStep, PendingIsSplit
<1>s. ASSUME agent'.unread \in {<<>>, agent.unread}, agent'.pending \in {agent.pending, Rest, <<>>}, spool' = spool
      PROVE  Good
  BY <1>e, <1>q, <1>s, PendingIsSplit
<1>1. ASSUME NEW n \in Names, Recognize(n)
      PROVE  Good
  <2>1. PICK s : s = [i \in 1 .. ReadsIn[n] |-> <<n, watch[n], i>>]
    OBVIOUS
  <2>2. watch[n] \in 1 .. MaxVersion
    <3>1. watch[n] > 0 /\ watch[n] \in 0 .. MaxVersion
      BY <1>1 DEF Recognize, AgentTypes, CameraTypes
    <3> QED BY <3>1, BoundsAssumption
  <2>3. s \in Seq(Reads) /\ Elements(s) = ReadsOf(<<n, watch[n]>>) /\ Injective(s)
    BY <2>1, <2>2, RecognizedElements
  <2>4. agent'.unread = s /\ agent'.pending = agent.pending /\ spool' = spool
    BY <1>1, <1>t, <2>1 DEF Recognize, Agent, files
  <2>5. \A r \in Reads : r \in ReadsOf(<<n, watch[n]>>) => r \notin Elements(spool)
    BY <1>1, <1>c, RecognizedIsNew DEF Nowhere
  <2>6. Elements(spool) \subseteq Reads
    BY <1>t DEF Elements
  <2> QED BY <1>q, <2>3, <2>4, <2>5, <2>6
<1>2. ASSUME Spool PROVE Good
  <2>1. agent.unread # <<>> /\ spool' = Append(spool, Head(agent.unread))
    BY <1>2 DEF Spool, Appended
  <2>2. agent'.unread = Tail(agent.unread) /\ agent'.pending = agent.pending
    BY <1>2, <1>t DEF Spool, Agent
  <2>3. /\ Head(agent.unread) \in Reads
        /\ Elements(agent.unread) = {Head(agent.unread)} \cup Elements(Tail(agent.unread))
        /\ Injective(Tail(agent.unread)) /\ Head(agent.unread) \notin Elements(Tail(agent.unread))
    BY <1>q, <1>t, <2>1, TakenElements
  <2>4. Head(agent.unread) \notin Elements(spool)
    BY <1>q, <2>3
  <2>5. Elements(spool') = Elements(spool) \cup {Head(agent.unread)} /\ Injective(spool')
    BY <1>q, <1>t, <2>1, <2>3, <2>4, SpooledElements
  <2> QED BY <1>q, <2>2, <2>3, <2>5
<1>3. ASSUME Flush PROVE Good
  <2>1. agent'.unread = agent.unread /\ agent'.pending = spool /\ spool' = spool
    BY <1>3, <1>t DEF Flush, Agent, files
  <2> QED BY <1>q, <2>1
<1>4. ASSUME KeepOnly PROVE Good
  <2>1. agent' = Started /\ spool' = agent.pending
    BY <1>4 DEF KeepOnly, Remaining
  <2> QED BY <1>e, <1>f, <1>q, <2>1
<1>5. ASSUME Scan PROVE Good
  <2>1. PICK s \in Agent : s = Started
    BY StartedType
  <2>2. agent' = [s EXCEPT !.pc = "frame", !.todo = {n \in Names : watch[n] > 0}] /\ spool' = spool
    BY <1>5, <2>1 DEF Scan, files
  <2>3. agent'.unread = <<>> /\ agent'.pending = <<>>
    BY <1>f, <2>1, <2>2 DEF Agent
  <2> QED BY <1>s, <2>2, <2>3
<1>6. ASSUME Delivered \/ GiveUp PROVE Good
  <2>1. /\ agent.pc = "wait" /\ agent'.unread = agent.unread /\ agent'.pending = agent.rest /\ spool' = spool
    BY <1>6, <1>t DEF Delivered, GiveUp, Answered, Agent, files
  <2>2. agent.rest = Rest
    BY <2>1 DEF WaitsForBatch
  <2> QED BY <1>s, <2>1, <2>2
<1>7. ASSUME Hold \/ LinkDown \/ Mark \/ ScanDone \/ Save \/ SaveFails PROVE Good
  <2>1. agent'.unread = agent.unread /\ agent'.pending = agent.pending /\ spool' = spool
    BY <1>7, <1>t DEF Hold, LinkDown, Held, Mark, ScanDone, Save, SaveFails, Agent, files
  <2> QED BY <1>s, <2>1
<1>8. ASSUME NEW n \in Names, Skip(n)
      PROVE  agent'.unread = agent.unread /\ agent'.pending = agent.pending /\ spool' = spool
  BY <1>8, <1>t DEF Skip, Agent, files
<1>9. ASSUME NEW c \in Calls, Send(c)
      PROVE  agent'.unread = agent.unread /\ agent'.pending = agent.pending /\ spool' = spool
  BY <1>9, <1>t DEF Send, Agent, files
<1>10. ASSUME NEW n \in Names, Shoot(n) PROVE agent' = agent /\ spool' = spool
  BY <1>10 DEF Shoot, files
<1>11. ASSUME NEW c \in Calls, Serve(c) \/ Fail(c) PROVE agent' = agent /\ spool' = spool
  BY <1>11 DEF Serve, Fail, Authenticate, Accept, Reject, Audit, Report, files
<1>12. ASSUME SuspendFeed \/ ReactivateFeed \/ ServerDies PROVE Good
  BY <1>12, <1>s DEF SuspendFeed, ReactivateFeed, ServerDies, files
<1>13. Good
  <2>1. ASSUME agent'.unread = agent.unread, agent'.pending = agent.pending, spool' = spool PROVE Good
    BY <1>s, <2>1
  <2> HIDE DEF Good, EdgeTypes
  <2> QED BY <1>c, <1>1, <1>2, <1>3, <1>4, <1>5, <1>6, <1>7, <1>8, <1>9, <1>10, <1>11, <1>12, <2>1 DEF EdgeNext, AgentStep
<1> QED BY <1>b, <1>13

\* What a handler has still to do.
LeftOf(h) == IF h.pc \in {"authenticate", "items"}
             THEN {h.batch[i] : i \in (h.next + 1) .. Len(h.batch)} ELSE {}

\* The handlers that may store a read though the agent gave up on them.
Stale(r) == {c \in Calls \ {agent.call} : r \in LeftOf(call[c])}

\* The agent will get its batch back, or never let go of it.
Returns == \/ call[agent.call].pc = "free"
           \/ call[agent.call].pc = "answered" /\ call[agent.call].answer = "500"

\* The agent, or the handler it waits for, may yet store a read.
MayStore(r) ==
    \/ agent.pc \in {"send", "keep"} /\ r \in Elements(agent.pending)
    \/ /\ agent.pc = "wait"
       /\ r \in Elements(agent.rest) \/ (Returns /\ r \in Elements(Batch)) \/ r \in LeftOf(call[agent.call])
    \/ agent.pc \notin {"send", "keep", "wait"} /\ (r \in Elements(spool) \/ r \in Elements(agent.unread))

Budget(r) ==
    /\ IsFiniteSet(Stale(r))
    /\ stored[r] + Cardinality(Stale(r)) + (IF MayStore(r) THEN 1 ELSE 0) <= 1 + count.fault

InBudget == count.crash = 0 => \A r \in Reads : Budget(r)

LEMMA BudgetNumbers ==
    ASSUME EdgeTypes, EdgeNext, NEW r \in Reads
    PROVE  /\ stored[r] \in Nat /\ stored'[r] \in Nat /\ count.fault \in Nat /\ count'.fault \in Nat
           /\ count.fault <= count'.fault
  BY TableStep, CountStep DEF EdgeTypes, TableTypes

LEMMA BudgetKept ==
    ASSUME EdgeTypes, EdgeNext, NEW r \in Reads, Budget(r),
           stored'[r] = stored[r], Stale(r)' \subseteq Stale(r), MayStore(r)' => MayStore(r)
    PROVE  Budget(r)'
<1>1. IsFiniteSet(Stale(r)') /\ Cardinality(Stale(r)) \in Nat /\ Cardinality(Stale(r)') \in Nat
      /\ Cardinality(Stale(r)') <= Cardinality(Stale(r))
  BY NoMore DEF Budget
<1>2. stored[r] + Cardinality(Stale(r)) + (IF MayStore(r) THEN 1 ELSE 0) <= 1 + count.fault
  BY DEF Budget
<1>3. (IF MayStore(r)' THEN 1 ELSE 0) <= (IF MayStore(r) THEN 1 ELSE 0)
  OBVIOUS
<1>4. stored'[r] + Cardinality(Stale(r)') + (IF MayStore(r)' THEN 1 ELSE 0) <= 1 + count'.fault
  BY <1>1, <1>2, <1>3, BudgetNumbers
<1> QED BY <1>1, <1>4 DEF Budget

LEMMA BudgetPaid ==
    ASSUME EdgeTypes, EdgeNext, NEW r \in Reads, Budget(r), Fault, stored'[r] = stored[r],
           Stale(r)' \subseteq Stale(r) \/ (MayStore(r) /\ \E x : Stale(r)' \subseteq Stale(r) \cup {x})
    PROVE  Budget(r)'
<1>1. count'.fault = count.fault + 1
  BY CountStep
<1>2. stored[r] + Cardinality(Stale(r)) + (IF MayStore(r) THEN 1 ELSE 0) <= 1 + count.fault
  BY DEF Budget
<1>3. CASE Stale(r)' \subseteq Stale(r)
  <2>1. IsFiniteSet(Stale(r)') /\ Cardinality(Stale(r)) \in Nat /\ Cardinality(Stale(r)') \in Nat
        /\ Cardinality(Stale(r)') <= Cardinality(Stale(r))
    BY <1>3, NoMore DEF Budget
  <2>2. stored'[r] + Cardinality(Stale(r)') + (IF MayStore(r)' THEN 1 ELSE 0) <= 1 + count'.fault
    BY <1>1, <1>2, <2>1, BudgetNumbers
  <2> QED BY <2>1, <2>2 DEF Budget
<1>4. CASE MayStore(r) /\ \E x : Stale(r)' \subseteq Stale(r) \cup {x}
  <2>1. IsFiniteSet(Stale(r)') /\ Cardinality(Stale(r)) \in Nat /\ Cardinality(Stale(r)') \in Nat
        /\ Cardinality(Stale(r)') <= Cardinality(Stale(r)) + 1
    BY <1>4, OneMore DEF Budget
  <2>2. stored[r] + Cardinality(Stale(r)) + 1 <= 1 + count.fault
    BY <1>2, <1>4
  <2>3. stored'[r] + Cardinality(Stale(r)') + (IF MayStore(r)' THEN 1 ELSE 0) <= 1 + count'.fault
    BY <1>1, <2>1, <2>2, BudgetNumbers
  <2> QED BY <2>1, <2>3 DEF Budget
<1> QED BY <1>3, <1>4

LEMMA BudgetSpent ==
    ASSUME EdgeTypes, EdgeNext, NEW r \in Reads, Budget(r), stored'[r] = stored[r] + 1,
           \/ \E c \in Stale(r) : Stale(r)' \subseteq Stale(r) \ {c} /\ (MayStore(r)' => MayStore(r))
           \/ Stale(r)' \subseteq Stale(r) /\ MayStore(r) /\ ~MayStore(r)'
    PROVE  Budget(r)'
<1>2. stored[r] + Cardinality(Stale(r)) + (IF MayStore(r) THEN 1 ELSE 0) <= 1 + count.fault
  BY DEF Budget
<1>3. CASE Stale(r)' \subseteq Stale(r) /\ MayStore(r) /\ ~MayStore(r)'
  <2>1. IsFiniteSet(Stale(r)') /\ Cardinality(Stale(r)) \in Nat /\ Cardinality(Stale(r)') \in Nat
        /\ Cardinality(Stale(r)') <= Cardinality(Stale(r))
    BY <1>3, NoMore DEF Budget
  <2>2. stored[r] + Cardinality(Stale(r)) + 1 <= 1 + count.fault
    BY <1>2, <1>3
  <2>3. stored'[r] + Cardinality(Stale(r)') + 0 <= 1 + count'.fault
    BY <2>1, <2>2, BudgetNumbers
  <2> QED BY <1>3, <2>1, <2>3 DEF Budget
<1>4. ASSUME NEW c \in Stale(r), Stale(r)' \subseteq Stale(r) \ {c}, MayStore(r)' => MayStore(r)
      PROVE  Budget(r)'
  <2>1. IsFiniteSet(Stale(r)') /\ Cardinality(Stale(r)) \in Nat /\ Cardinality(Stale(r)') \in Nat
        /\ Cardinality(Stale(r)') + 1 <= Cardinality(Stale(r))
    BY <1>4, OneLess DEF Budget
  <2>2. (IF MayStore(r)' THEN 1 ELSE 0) <= (IF MayStore(r) THEN 1 ELSE 0)
    BY <1>4
  <2>3. stored'[r] + Cardinality(Stale(r)') + (IF MayStore(r)' THEN 1 ELSE 0) <= 1 + count'.fault
    BY <1>2, <2>1, <2>2, BudgetNumbers
  <2> QED BY <2>1, <2>3 DEF Budget
<1> QED BY <1>3, <1>4

LEMMA LeftOfBatch == ASSUME NEW h \in Request PROVE LeftOf(h) \subseteq Elements(h.batch)
<1>1. h.batch \in Seq(Reads) /\ h.next \in Nat /\ Len(h.batch) \in Nat
  BY DEF Request
<1>2. \A i \in (h.next + 1) .. Len(h.batch) : i \in 1 .. Len(h.batch)
  BY <1>1
<1> QED BY <1>1, <1>2 DEF LeftOf, Elements

\* Passing an item leaves the ones after it.
LEMMA LeftAfterItem ==
    ASSUME NEW h \in Request, NEW g, h.pc = "items", h.next < Len(h.batch),
           g.pc = "items", g.batch = h.batch, g.next = h.next + 1
    PROVE  /\ LeftOf(g) \subseteq LeftOf(h) /\ h.batch[h.next + 1] \in LeftOf(h)
           /\ Injective(h.batch) => h.batch[h.next + 1] \notin LeftOf(g)
<1>1. h.batch \in Seq(Reads) /\ h.next \in Nat /\ Len(h.batch) \in Nat /\ DOMAIN h.batch = 1 .. Len(h.batch)
  BY DEF Request
<1>2. LeftOf(h) = {h.batch[i] : i \in (h.next + 1) .. Len(h.batch)}
  BY DEF LeftOf
<1>3. LeftOf(g) = {h.batch[i] : i \in (h.next + 2) .. Len(h.batch)}
  <2>1. (h.next + 1) + 1 = h.next + 2
    BY <1>1
  <2> QED BY <2>1 DEF LeftOf
<1>4. \A i \in (h.next + 2) .. Len(h.batch) : i \in (h.next + 1) .. Len(h.batch) /\ i \in 1 .. Len(h.batch) /\ i # h.next + 1
  BY <1>1
<1>5. h.next + 1 \in (h.next + 1) .. Len(h.batch) /\ h.next + 1 \in 1 .. Len(h.batch)
  BY <1>1
<1>6. LeftOf(g) \subseteq LeftOf(h) /\ h.batch[h.next + 1] \in LeftOf(h)
  BY <1>2, <1>3, <1>4, <1>5
<1>7. ASSUME Injective(h.batch), h.batch[h.next + 1] \in LeftOf(g) PROVE FALSE
  <2>1. PICK i \in (h.next + 2) .. Len(h.batch) : h.batch[i] = h.batch[h.next + 1]
    BY <1>3, <1>7
  <2>2. i \in 1 .. Len(h.batch) /\ i # h.next + 1
    BY <1>4
  <2> QED BY <1>1, <1>5, <1>7, <2>1, <2>2 DEF Injective
<1> QED BY <1>6, <1>7

\* What a step of a handler does to what is left, and to the agent's waiting.
LEMMA ServeLeaves ==
    ASSUME EdgeTypes, NEW c \in Calls, Serve(c) \/ Fail(c), NEW h, h = call'[c]
    PROVE  /\ agent' = agent /\ spool' = spool /\ \A d \in Calls : d # c => call'[d] = call[d]
           /\ LeftOf(h) \subseteq LeftOf(call[c])
           /\ agent.call = c => h.pc # "free" /\ (h.pc = "answered" /\ h.answer = "500" => Fail(c))
<1> USE DEF EdgeTypes
<1>t. call[c] \in Request
  BY DEF HandlerTypes
<1>w. agent.call = c => agent.pc = "wait"
  BY EdgeNamesAssumption DEF AgentTypes
<1>1. agent' = agent /\ spool' = spool /\ \A d \in Calls : d # c => call'[d] = call[d]
  BY DEF HandlerTypes, Serve, Fail, Authenticate, Accept, Reject, Audit, Report, files
<1>2. CASE Accept(c) \/ Reject(c)
  <2>1. h.pc = "items" /\ h.batch = call[c].batch /\ h.next = call[c].next + 1
    BY <1>2, <1>t DEF HandlerTypes, Accept, Reject, MoreItems, Request
  <2>2. call[c].pc = "items" /\ call[c].next < Len(call[c].batch)
    BY <1>2 DEF Accept, Reject, MoreItems
  <2> QED BY <1>1, <1>t, <2>1, <2>2, LeftAfterItem
<1>3. CASE Audit(c)
  <2>1. h.pc = "report"
    BY <1>3, <1>t DEF HandlerTypes, Audit, Request
  <2> QED BY <1>1, <2>1 DEF LeftOf
<1>r. ASSUME NEW answer \in {"201", "400", "401", "413", "500"}, h = Reply(c, answer), answer = "500" => Fail(c)
      PROVE  /\ LeftOf(h) = {}
             /\ agent.call = c => h.pc # "free" /\ (h.pc = "answered" /\ h.answer = "500" => Fail(c))
  <2>1. CASE Listening(c)
    <3>1. h = [call[c] EXCEPT !.pc = "answered", !.answer = answer]
      BY <1>r, <2>1 DEF Reply
    <3>2. h.pc = "answered" /\ h.answer = answer
      BY <1>t, <3>1 DEF Request
    <3> QED BY <1>r, <3>2 DEF LeftOf
  <2>2. CASE ~Listening(c)
    <3>1. h = Free
      BY <1>r, <2>2 DEF Reply
    <3>2. h.pc = "free" /\ agent.call # c
      BY <1>w, <2>2, <3>1 DEF Free, Listening
    <3> QED BY <3>2 DEF LeftOf
  <2> QED BY <2>1, <2>2
<1>4. CASE Report(c)
  <2>1. h = Reply(c, "201") \/ h = Reply(c, "400")
    BY <1>4 DEF Report, HandlerTypes
  <2> QED BY <1>1, <1>r, <2>1
<1>5. CASE Fail(c)
  <2>1. h = Reply(c, "500")
    BY <1>5 DEF Fail, HandlerTypes
  <2> QED BY <1>1, <1>5, <1>r, <2>1
<1>6. CASE Authenticate(c)
  <2>1. h = Reply(c, "401") \/ h = Reply(c, "413") \/ h = [call[c] EXCEPT !.pc = "items"]
    BY <1>6 DEF Authenticate, HandlerTypes
  <2>2. CASE h = [call[c] EXCEPT !.pc = "items"]
    <3>1. h.pc = "items" /\ h.batch = call[c].batch /\ h.next = call[c].next
      BY <1>t, <2>2 DEF Request
    <3>2. call[c].pc = "authenticate"
      BY <1>6 DEF Authenticate
    <3>3. LeftOf(h) = LeftOf(call[c])
      BY <3>1, <3>2 DEF LeftOf
    <3> QED BY <1>1, <3>1, <3>3
  <2> QED BY <1>1, <1>r, <2>1, <2>2
<1> QED BY <1>2, <1>3, <1>4, <1>5, <1>6 DEF Serve

\* The steps before the agent sends: what may be stored is what it has queued.
LEMMA QueueingKeepsBudget ==
    ASSUME EdgeTypes, EdgeNext, NEW r \in Reads, Budget(r),
           \/ Scan \/ Spool \/ Mark \/ ScanDone \/ Save \/ SaveFails \/ Flush \/ KeepOnly
           \/ SuspendFeed \/ ReactivateFeed \/ \E n \in Names : Skip(n) \/ Shoot(n)
    PROVE  Budget(r)'
<1> USE DEF EdgeTypes
<1>t. /\ agent \in Agent /\ agent.unread \in Seq(Reads) /\ agent.pending \in Seq(Reads) /\ spool \in Seq(Reads)
      /\ agent.pc # "spool" => agent.unread = <<>>
      /\ (agent.pc = "wait") = (agent.call # NoCall)
  BY DEF AgentTypes, Agent
<1>e. Elements(<<>>) = {}
  BY DEF Elements
<1>s. PICK s \in Agent : s = Started /\ s.pc = "scan" /\ s.unread = <<>> /\ s.call = NoCall
  BY StartedType DEF Started
<1>k. ASSUME stored' = stored, call' = call, agent'.call = agent.call, MayStore(r)' => MayStore(r)
      PROVE  Budget(r)'
  <2>1. Stale(r)' \subseteq Stale(r) /\ stored'[r] = stored[r]
    BY <1>k DEF Stale
  <2> HIDE DEF EdgeTypes
  <2> QED BY <1>k, <2>1, BudgetKept
<1>q. ASSUME stored' = stored, call' = call, agent'.call = agent.call,
             agent.pc \notin {"send", "keep", "wait"}, agent'.pc \notin {"send", "keep", "wait"},
             \/ r \notin Elements(spool') \cup Elements(agent'.unread)
             \/ r \in Elements(spool) \cup Elements(agent.unread)
      PROVE  Budget(r)'
  BY <1>k, <1>q DEF MayStore
<1>1. CASE Scan
  <2>1. agent' = [s EXCEPT !.pc = "frame", !.todo = {n \in Names : watch[n] > 0}]
    BY <1>1, <1>s DEF Scan
  <2>2. agent'.pc = "frame" /\ agent'.unread = <<>> /\ agent'.call = agent.call
    BY <1>1, <1>s, <1>t, <2>1 DEF Scan, Agent
  <2>3. UNCHANGED <<spool, stored, call>> /\ agent.pc = "scan"
    BY <1>1 DEF Scan, files, tables
  <2> QED BY <1>e, <1>q, <2>2, <2>3
<1>2. CASE Spool
  <2>1. agent.unread # <<>> /\ spool' = Append(spool, Head(agent.unread)) /\ UNCHANGED <<stored, call>>
    BY <1>2 DEF Spool, Appended, tables
  <2>2. agent'.unread = Tail(agent.unread) /\ agent'.pc = "spool" /\ agent'.call = agent.call /\ agent.pc = "spool"
    BY <1>2, <1>t DEF Spool, Agent
  <2>3. Head(agent.unread) \in Reads /\ Elements(agent.unread) = {Head(agent.unread)} \cup Elements(Tail(agent.unread))
    BY <1>t, <2>1, TakenElements
  <2>4. Elements(spool') = Elements(spool) \cup {Head(agent.unread)}
    BY <1>t, <2>1, <2>3, SpooledElements
  <2> QED BY <1>q, <2>1, <2>2, <2>3, <2>4
<1>3. CASE Mark \/ ScanDone \/ Save \/ SaveFails
  <2>1. /\ agent'.unread = agent.unread /\ agent'.call = agent.call
        /\ agent.pc \in {"spool", "frame", "save"} /\ agent'.pc \in {"frame", "save", "flush"}
    BY <1>3, <1>t DEF Mark, ScanDone, AfterScan, Save, SaveFails, Agent
  <2>2. UNCHANGED <<spool, stored, call>>
    BY <1>3 DEF Mark, ScanDone, Save, SaveFails, files, tables
  <2> QED BY <1>q, <2>1, <2>2
<1>4. ASSUME NEW n \in Names, Skip(n) PROVE Budget(r)'
  <2>1. agent'.unread = agent.unread /\ agent'.call = agent.call /\ agent.pc = "frame" /\ agent'.pc = "frame"
    BY <1>4, <1>t DEF Skip, Agent
  <2>2. UNCHANGED <<spool, stored, call>>
    BY <1>4 DEF Skip, files, tables
  <2> QED BY <1>q, <2>1, <2>2
<1>5. CASE Flush
  <2>1. /\ agent'.pending = spool /\ agent'.call = agent.call /\ agent'.unread = agent.unread
        /\ agent.pc = "flush" /\ agent'.pc = IF spool = <<>> THEN "scan" ELSE "send"
    BY <1>5, <1>t DEF Flush, Agent
  <2>2. UNCHANGED <<spool, stored, call>>
    BY <1>5 DEF Flush, files, tables
  <2>3. MayStore(r)' => MayStore(r)
    BY <2>1, <2>2 DEF MayStore
  <2> QED BY <1>k, <2>1, <2>2, <2>3
<1>6. CASE KeepOnly
  <2>1. agent'.pc = "scan" /\ agent'.unread = <<>> /\ agent'.call = NoCall /\ spool' = agent.pending
    BY <1>6, <1>s DEF KeepOnly, Remaining
  <2>2. UNCHANGED <<stored, call>> /\ agent.pc \in {"keep", "send"}
    BY <1>6 DEF KeepOnly, tables
  <2>3. MayStore(r)' => MayStore(r)
    BY <1>e, <2>1, <2>2 DEF MayStore
  <2> QED BY <1>k, <1>t, <2>1, <2>2, <2>3
<1>7. ASSUME UNCHANGED <<agent, spool, stored, call>> PROVE Budget(r)'
  <2>1. MayStore(r)' => MayStore(r)
    BY <1>7 DEF MayStore, Returns, Batch
  <2> QED BY <1>7, <1>k, <2>1
<1>8. ASSUME NEW n \in Names, Shoot(n) PROVE Budget(r)'
  <2>1. UNCHANGED <<agent, spool, stored, call>>
    BY <1>8 DEF Shoot, files, tables
  <2> QED BY <1>7, <2>1
<1>9. CASE SuspendFeed \/ ReactivateFeed
  <2>1. UNCHANGED <<agent, spool, stored, call>>
    BY <1>9 DEF SuspendFeed, ReactivateFeed, files, tables
  <2> QED BY <1>7, <2>1
<1> HIDE DEF EdgeTypes
<1> QED BY <1>1, <1>2, <1>3, <1>4, <1>5, <1>6, <1>8, <1>9

\* What is recognized is new, so one storing of it is within any budget.
LEMMA RecognizedInBudget ==
    ASSUME EdgeTypes, Unseen, Known, count.crash = 0, EdgeNext,
           NEW r \in Reads, Budget(r), NEW n \in Names, Recognize(n)
    PROVE  Budget(r)'
<1> USE DEF EdgeTypes
<1>t. agent \in Agent /\ call \in [Calls -> Request] /\ agent.call = NoCall /\ agent.unread = <<>> /\ spool \in Seq(Reads)
  BY DEF AgentTypes, HandlerTypes, Recognize
<1>e. Elements(<<>>) = {}
  BY DEF Elements
<1>1. PICK s : s = [i \in 1 .. ReadsIn[n] |-> <<n, watch[n], i>>]
  OBVIOUS
<1>2. watch[n] \in 1 .. MaxVersion
  <2>1. watch[n] > 0 /\ watch[n] \in 0 .. MaxVersion
    BY DEF Recognize, AgentTypes, CameraTypes
  <2> QED BY <2>1, BoundsAssumption
<1>3. Elements(s) = ReadsOf(<<n, watch[n]>>)
  BY <1>1, <1>2, RecognizedElements
<1>4. agent'.unread = s /\ agent'.call = agent.call /\ agent.pc = "frame" /\ agent'.pc = "spool"
  BY <1>1, <1>t DEF Recognize, Agent
<1>5. UNCHANGED <<spool, stored, call>>
  BY DEF Recognize, files, tables
<1>6. Stale(r)' = Stale(r)
  BY <1>4, <1>5 DEF Stale
<1>7. CASE r \notin ReadsOf(<<n, watch[n]>>)
  <2>1. MayStore(r)' => MayStore(r)
    BY <1>3, <1>4, <1>5, <1>7 DEF MayStore
  <2> HIDE DEF EdgeTypes
  <2> QED BY <1>5, <1>6, <2>1, BudgetKept
<1>8. CASE r \in ReadsOf(<<n, watch[n]>>)
  <2>1. Nowhere(r)
    BY <1>8, RecognizedIsNew
  <2>2. Stale(r) = {}
    <3>1. ASSUME NEW c \in Stale(r) PROVE FALSE
      <4>1. c \in Calls /\ r \in LeftOf(call[c])
        BY <3>1 DEF Stale
      <4>2. call[c] \in Request
        BY <1>t, <4>1
      <4> QED BY <2>1, <4>1, <4>2, LeftOfBatch DEF Nowhere
    <3> QED BY <3>1
  <2>3. stored'[r] = 0 /\ IsFiniteSet(Stale(r)') /\ Cardinality(Stale(r)') = 0
    BY <1>5, <1>6, <2>1, <2>2, FS_EmptySet DEF Nowhere
  <2>4. stored'[r] + Cardinality(Stale(r)') + (IF MayStore(r)' THEN 1 ELSE 0) <= 1 + count'.fault
    BY <2>3, BudgetNumbers
  <2> QED BY <2>3, <2>4 DEF Budget
<1> QED BY <1>7, <1>8

\* Sending moves a batch from the agent's hands to the handler it waits for.
LEMMA SendingKeepsBudget ==
    ASSUME EdgeTypes, EdgeNext, NEW r \in Reads, Budget(r), NEW c \in Calls, Send(c)
    PROVE  Budget(r)'
<1> USE DEF EdgeTypes
<1>t. agent \in Agent /\ call \in [Calls -> Request] /\ agent.call = NoCall /\ agent.pc = "send" /\ NoCall \notin Calls
  BY EdgeNamesAssumption DEF AgentTypes, HandlerTypes, Send
<1>1. PICK f \in Request : f = Free
  BY StartedType
<1>2. PICK h : h = [f EXCEPT !.pc = "authenticate", !.batch = Batch]
  OBVIOUS
<1>3. h.pc = "authenticate" /\ h.batch = Batch /\ h.next = 0
  <2>1. f.next = 0
    BY <1>1 DEF Free
  <2> QED BY <1>2, <2>1 DEF Request
<1>4. call' = [call EXCEPT ![c] = h]
  BY <1>1, <1>2 DEF Send
<1>5. /\ agent'.pc = "wait" /\ agent'.call = c /\ agent'.rest = Rest /\ agent'.pending = agent.pending
      /\ stored' = stored
  BY <1>t DEF Send, Agent, tables
<1>6. LeftOf(h) \subseteq Elements(Batch)
  <2>1. Batch \in Seq(Reads) /\ Len(Batch) \in Nat /\ DOMAIN Batch = 1 .. Len(Batch)
    BY BatchTypes
  <2>2. \A i \in (0 + 1) .. Len(Batch) : i \in 1 .. Len(Batch)
    BY <2>1
  <2>3. LeftOf(h) = {Batch[i] : i \in (0 + 1) .. Len(Batch)}
    BY <1>3 DEF LeftOf
  <2> QED BY <2>1, <2>2, <2>3 DEF Elements
<1>7. Stale(r)' \subseteq Stale(r)
  <2>1. ASSUME NEW d \in Stale(r)' PROVE d \in Stale(r)
    <3>1. d \in Calls /\ d # c /\ r \in LeftOf(call'[d])
      BY <1>5, <2>1 DEF Stale
    <3>2. call'[d] = call[d]
      BY <1>t, <1>4, <3>1
    <3> QED BY <1>t, <3>1, <3>2 DEF Stale
  <2> QED BY <2>1
<1>8. MayStore(r)' => MayStore(r)
  <2>1. call'[c] = h
    BY <1>t, <1>4
  <2>2. ~Returns'
    BY <1>3, <1>5, <2>1 DEF Returns
  <2>3. MayStore(r)' => r \in Elements(Rest) \cup LeftOf(h)
    BY <1>5, <2>1, <2>2 DEF MayStore
  <2>4. r \in Elements(Rest) \cup LeftOf(h) => r \in Elements(agent.pending)
    BY <1>6, PendingIsSplit
  <2> QED BY <1>t, <2>3, <2>4 DEF MayStore
<1> HIDE DEF EdgeTypes
<1> QED BY <1>5, <1>7, <1>8, BudgetKept

\* An answer ends the handler, and only a failure brings the batch back.
LEMMA AnswerKeepsBudget ==
    ASSUME EdgeTypes, WaitsForBatch, EdgeNext, NEW r \in Reads, Budget(r), Delivered \/ GiveUp \/ Hold
    PROVE  Budget(r)'
<1> USE DEF EdgeTypes
<1>t. agent \in Agent /\ call \in [Calls -> Request] /\ agent.pc = "wait" /\ agent.call \in Calls /\ NoCall \notin Calls
  BY EdgeNamesAssumption DEF AgentTypes, HandlerTypes, Delivered, GiveUp, Hold, Answered, Agent
<1>1. LeftOf(Free) = {}
  BY DEF LeftOf, Free
<1>2. /\ agent'.call = NoCall /\ stored' = stored /\ agent'.pc \in {"send", "keep"}
      /\ call' = [call EXCEPT ![agent.call] = Free] \/ (call[agent.call].pc = "free" /\ call' = call)
  BY <1>t DEF Delivered, GiveUp, Hold, Answered, Agent, tables
<1>3. Stale(r)' \subseteq Stale(r)
  <2>1. ASSUME NEW d \in Stale(r)' PROVE d \in Stale(r)
    <3>1. d \in Calls /\ r \in LeftOf(call'[d])
      BY <2>1 DEF Stale
    <3>2. d # agent.call /\ call'[d] = call[d]
      <4>1. CASE call' = [call EXCEPT ![agent.call] = Free]
        BY <1>t, <1>1, <3>1, <4>1
      <4>2. CASE call[agent.call].pc = "free" /\ call' = call
        BY <3>1, <4>2 DEF LeftOf
      <4> QED BY <1>2, <4>1, <4>2
    <3> QED BY <3>1, <3>2 DEF Stale
  <2> QED BY <2>1
<1>4. MayStore(r)' => MayStore(r)
  <2>1. CASE Delivered \/ GiveUp
    <3>1. agent'.pending = agent.rest
      BY <1>t, <2>1 DEF Delivered, GiveUp, Agent
    <3> QED BY <1>t, <1>2, <3>1 DEF MayStore
  <2>2. CASE Hold
    <3>1. agent'.pending = agent.pending /\ Returns
      BY <1>t, <2>2 DEF Hold, Held, Answered, Agent, Returns
    <3>2. Elements(agent.pending) = Elements(Batch) \cup Elements(agent.rest)
      BY <1>t, PendingIsSplit DEF WaitsForBatch
    <3> QED BY <1>t, <1>2, <3>1, <3>2 DEF MayStore
  <2> QED BY <2>1, <2>2
<1> HIDE DEF EdgeTypes
<1> QED BY <1>2, <1>3, <1>4, BudgetKept

\* A failure leaves at most one handler behind with a read the agent keeps too.
LEMMA FaultPaysBudget ==
    ASSUME EdgeTypes, EdgeNext, NEW r \in Reads, Budget(r), LinkDown \/ ServerDies \/ \E c \in Calls : Fail(c)
    PROVE  Budget(r)'
<1> USE DEF EdgeTypes
<1>t. agent \in Agent /\ call \in [Calls -> Request] /\ NoCall \notin Calls
      /\ (agent.pc = "wait") = (agent.call # NoCall)
  BY EdgeNamesAssumption DEF AgentTypes, HandlerTypes
<1>1. LeftOf(Free) = {}
  BY DEF LeftOf, Free
<1>2. Fault /\ stored' = stored
  BY DEF LinkDown, ServerDies, Fail, tables
<1>3. CASE ServerDies
  <2>1. \A c \in Calls : call'[c] = Free
    BY <1>3 DEF ServerDies
  <2>2. Stale(r)' \subseteq Stale(r)
    BY <1>1, <2>1 DEF Stale
  <2> HIDE DEF EdgeTypes
  <2> QED BY <1>2, <2>2, BudgetPaid
<1>4. ASSUME NEW c \in Calls, Fail(c) PROVE Budget(r)'
  <2>1. PICK h : h = call'[c]
    OBVIOUS
  <2>2. agent' = agent /\ LeftOf(h) \subseteq LeftOf(call[c]) /\ \A d \in Calls : d # c => call'[d] = call[d]
    <3> HIDE DEF EdgeTypes
    <3> QED BY <1>4, <2>1, ServeLeaves
  <2>3. Stale(r)' \subseteq Stale(r)
    BY <2>1, <2>2 DEF Stale
  <2> HIDE DEF EdgeTypes
  <2> QED BY <1>2, <2>3, BudgetPaid
<1>5. CASE LinkDown
  <2>1. agent'.call = NoCall /\ agent.pc \in {"send", "wait"}
    BY <1>5, <1>t DEF LinkDown, Agent
  <2>2. \A d \in Calls : d # agent.call => call'[d] = call[d]
    BY <1>5, <1>t DEF LinkDown
  <2>3. ASSUME agent.call \in Calls PROVE LeftOf(call'[agent.call]) \subseteq LeftOf(call[agent.call])
    BY <1>5, <1>t, <1>1, <2>3 DEF LinkDown
  <2>4. CASE agent.call \in Calls /\ r \in LeftOf(call[agent.call])
    <3>1. MayStore(r)
      BY <1>t, <2>1, <2>4 DEF MayStore
    <3>2. Stale(r)' \subseteq Stale(r) \cup {agent.call}
      BY <2>2, <2>3, <2>4 DEF Stale
    <3> HIDE DEF EdgeTypes
    <3> QED BY <1>2, <3>1, <3>2, BudgetPaid
  <2>5. CASE ~(agent.call \in Calls /\ r \in LeftOf(call[agent.call]))
    <3>1. Stale(r)' \subseteq Stale(r)
      BY <2>2, <2>3, <2>5 DEF Stale
    <3> HIDE DEF EdgeTypes
    <3> QED BY <1>2, <3>1, BudgetPaid
  <2> QED BY <2>4, <2>5
<1> QED BY <1>3, <1>4, <1>5

\* A handler that stores a read has one less to store.
LEMMA ServingSpendsBudget ==
    ASSUME EdgeTypes, WaitsForBatch, QueuesOnce, count.crash = 0, EdgeNext,
           NEW r \in Reads, Budget(r), NEW c \in Calls, Serve(c), ~Fail(c)
    PROVE  Budget(r)'
<1> USE DEF EdgeTypes
<1>t. /\ agent \in Agent /\ call \in [Calls -> Request] /\ agent.pending \in Seq(Reads)
      /\ (agent.pc = "wait") = (agent.call # NoCall) /\ NoCall \notin Calls
      /\ stored \in [Reads -> Nat]
  BY EdgeNamesAssumption DEF AgentTypes, HandlerTypes, TableTypes, Agent
<1>1. PICK h : h = call'[c]
  OBVIOUS
<1>2. /\ agent' = agent /\ spool' = spool /\ \A d \in Calls : d # c => call'[d] = call[d]
      /\ LeftOf(h) \subseteq LeftOf(call[c])
      /\ agent.call = c => h.pc # "free" /\ ~(h.pc = "answered" /\ h.answer = "500")
  <2> HIDE DEF EdgeTypes
  <2> QED BY <1>1, ServeLeaves
<1>3. Stale(r)' \subseteq Stale(r)
  BY <1>1, <1>2 DEF Stale
<1>4. Returns' /\ agent.pc = "wait" => Returns /\ agent.call # c
  <2>1. agent.pc = "wait" => agent.call \in Calls
    BY <1>t DEF Agent
  <2> QED BY <1>1, <1>2, <2>1 DEF Returns
<1>5. MayStore(r)' => MayStore(r)
  <2>1. Batch' = Batch
    BY <1>2 DEF Batch
  <2>2. agent.pc = "wait" => agent.call \in Calls /\ LeftOf(call'[agent.call]) \subseteq LeftOf(call[agent.call])
    BY <1>1, <1>2, <1>t DEF Agent
  <2> QED BY <1>2, <1>4, <2>1, <2>2 DEF MayStore
<1>6. CASE stored'[r] = stored[r]
  <2> HIDE DEF EdgeTypes
  <2> QED BY <1>3, <1>5, <1>6, BudgetKept
<1>7. CASE stored'[r] # stored[r]
  <2>1. Accept(c)
    BY <1>7 DEF Serve, Authenticate, Reject, Audit, Report, tables
  <2>2. /\ call[c].pc = "items" /\ call[c].next < Len(call[c].batch)
        /\ stored' = [stored EXCEPT ![Item(c)] = @ + 1]
    BY <2>1 DEF Accept, MoreItems
  <2>3. r = Item(c) /\ stored'[r] = stored[r] + 1
    BY <1>7, <1>t, <2>2
  <2>4. h.pc = "items" /\ h.batch = call[c].batch /\ h.next = call[c].next + 1
    BY <1>1, <1>t, <2>1, <2>2 DEF Accept, Request
  <2>5. Injective(call[c].batch)
    BY DEF QueuesOnce
  <2>6. r = call[c].batch[call[c].next + 1]
    BY <2>3 DEF Item
  <2>7. r \in LeftOf(call[c]) /\ r \notin LeftOf(h)
    <3>1. call[c] \in Request
      BY <1>t
    <3> QED BY <2>2, <2>4, <2>5, <2>6, <3>1, LeftAfterItem
  <2>8. CASE agent.call # c
    <3>1. c \in Stale(r) /\ Stale(r)' \subseteq Stale(r) \ {c}
      BY <1>1, <1>3, <2>7, <2>8 DEF Stale
    <3> HIDE DEF EdgeTypes
    <3> QED BY <1>5, <2>3, <3>1, BudgetSpent
  <2>9. CASE agent.call = c
    <3>1. agent.pc = "wait" /\ MayStore(r)
      BY <1>t, <2>7, <2>9 DEF MayStore
    <3>2. call[c].batch = Batch /\ agent.rest = Rest
      BY <2>2, <2>9, <3>1 DEF WaitsForBatch
    <3>3. r \in Elements(Batch)
      <4>1. call[c] \in Request
        BY <1>t
      <4> QED BY <2>7, <3>2, <4>1, LeftOfBatch
    <3>4. r \notin Elements(agent.rest)
      <4>1. Injective(agent.pending)
        BY DEF QueuesOnce
      <4> QED BY <3>2, <3>3, <4>1, PendingIsSplit
    <3>5. ~MayStore(r)'
      BY <1>1, <1>2, <1>4, <2>7, <2>9, <3>1, <3>4 DEF MayStore
    <3> HIDE DEF EdgeTypes
    <3> QED BY <1>3, <2>3, <3>1, <3>5, BudgetSpent
  <2> QED BY <2>8, <2>9
<1> QED BY <1>6, <1>7

LEMMA InBudgetStep ==
    ASSUME EdgeTypes, WaitsForBatch, Unseen, Known, QueuesOnce, InBudget, EdgeNext
    PROVE  InBudget'
<1> SUFFICES ASSUME count'.crash = 0, NEW r \in Reads PROVE Budget(r)'
  BY DEF InBudget
<1>c. count.crash = 0 /\ ~Crash
  BY CountStep
<1>b. Budget(r)
  BY <1>c DEF InBudget
<1>1. ASSUME \/ Scan \/ Spool \/ Mark \/ ScanDone \/ Save \/ SaveFails \/ Flush \/ KeepOnly
             \/ SuspendFeed \/ ReactivateFeed \/ \E n \in Names : Skip(n) \/ Shoot(n)
      PROVE  Budget(r)'
  BY <1>1, <1>b, QueueingKeepsBudget
<1>2. ASSUME NEW n \in Names, Recognize(n) PROVE Budget(r)'
  BY <1>2, <1>b, <1>c, RecognizedInBudget
<1>3. ASSUME NEW c \in Calls, Send(c) PROVE Budget(r)'
  BY <1>3, <1>b, SendingKeepsBudget
<1>4. ASSUME Delivered \/ GiveUp \/ Hold PROVE Budget(r)'
  BY <1>4, <1>b, AnswerKeepsBudget
<1>5. ASSUME LinkDown \/ ServerDies \/ \E c \in Calls : Fail(c) PROVE Budget(r)'
  BY <1>5, <1>b, FaultPaysBudget
<1>6. ASSUME NEW c \in Calls, Serve(c), ~Fail(c) PROVE Budget(r)'
  BY <1>6, <1>b, <1>c, ServingSpendsBudget
<1> QED BY <1>c, <1>1, <1>2, <1>3, <1>4, <1>5, <1>6 DEF EdgeNext, AgentStep

RepeatInv ==
    EdgeTypes /\ QueuesKeep /\ SeenAreShot /\ RereadsArePaid /\ Known /\ Unseen /\ QueuesOnce /\ InBudget

LEMMA InitRepeats == EdgeInit => RepeatInv
<1> SUFFICES ASSUME EdgeInit PROVE RepeatInv
  OBVIOUS
<1>t. EdgeTypes /\ QueuesKeep
  BY InitTypes, InitKeeps
<1>1. \A f \in Frames : readings[f] = 0
  BY DEF EdgeInit
<1>2. /\ agent.pc = "scan" /\ agent.unread = <<>> /\ agent.pending = <<>> /\ agent.rest = <<>> /\ spool = <<>>
      /\ \A c \in Calls : call[c].batch = <<>> /\ call[c].pc = "free"
      /\ \A r \in Reads : stored[r] = 0
      /\ count.crash = 0 /\ count.fault = 0
  BY DEF EdgeInit, Started, Free
<1>3. Elements(<<>>) = {} /\ Injective(<<>>)
  BY DEF Elements, Injective
<1>4. SeenAreShot /\ Known
  BY <1>1 DEF SeenAreShot, Known, Seen
<1>5. RereadsArePaid
  <2>1. ReadAgain = {}
    BY <1>1 DEF ReadAgain, Seen
  <2>2. IsFiniteSet(ReadAgain) /\ Cardinality(ReadAgain) = 0
    BY <2>1, FS_EmptySet
  <2> QED BY <1>2, <2>2 DEF RereadsArePaid
<1>6. Unseen /\ QueuesOnce
  BY <1>2, <1>3 DEF Unseen, Nowhere, QueuesOnce
<1>7. InBudget
  <2> SUFFICES ASSUME NEW r \in Reads PROVE Budget(r)
    BY DEF InBudget
  <2>1. Stale(r) = {}
    BY <1>2 DEF Stale, LeftOf
  <2>2. IsFiniteSet(Stale(r)) /\ Cardinality(Stale(r)) = 0
    BY <2>1, FS_EmptySet
  <2> QED BY <1>2, <2>2 DEF Budget
<1> QED BY <1>t, <1>4, <1>5, <1>6, <1>7 DEF RepeatInv

LEMMA RepeatStep == RepeatInv /\ [EdgeNext]_edgeVars => RepeatInv'
<1>1. RepeatInv /\ EdgeNext => RepeatInv'
  <2> SUFFICES ASSUME RepeatInv, EdgeNext PROVE RepeatInv'
    OBVIOUS
  <2>1. EdgeTypes' /\ QueuesKeep'
    BY EdgeTypesStep, QueuesKeepStep DEF RepeatInv
  <2>2. SeenAreShot' /\ RereadsArePaid' /\ Known'
    BY SeenAreShotStep, RereadsArePaidStep, KnownStep DEF RepeatInv
  <2>3. Unseen' /\ QueuesOnce' /\ InBudget'
    BY UnseenStep, QueuesOnceStep, InBudgetStep DEF RepeatInv, QueuesKeep
  <2> QED BY <2>1, <2>2, <2>3 DEF RepeatInv
<1>2. RepeatInv /\ UNCHANGED edgeVars => RepeatInv'
  <2> SUFFICES ASSUME RepeatInv, UNCHANGED edgeVars PROVE RepeatInv'
    OBVIOUS
  <2>1. EdgeTypes' /\ QueuesKeep'
    BY EdgeTypesStep, QueuesKeepStep DEF RepeatInv
  <2>2. UNCHANGED <<deleteAfter, shot, watch, processed, spool, agent, call, stored, readings, count>>
    BY DEF edgeVars, files, tables, history
  <2>3. SeenAreShot' /\ RereadsArePaid' /\ Known'
    BY <2>2 DEF RepeatInv, SeenAreShot, RereadsArePaid, Known, ReadAgain, Seen
  <2>4. Unseen' /\ QueuesOnce'
    BY <2>2 DEF RepeatInv, Unseen, FrameOf, Nowhere, QueuesOnce
  <2>5. InBudget'
    BY <2>2 DEF RepeatInv, InBudget, Budget, Stale, MayStore, Returns, Batch
  <2> QED BY <2>1, <2>3, <2>4, <2>5 DEF RepeatInv
<1> QED BY <1>1, <1>2

\* What is done twice was paid for: without a restart of the agent a read is stored
\* once, and once more for each failure of the link, the server or the disk (the
\* flush of edge_agent.py, and /ingest, which stores what it is sent); and with
\* --delete-after a restart sends one frame to the recognizer again
\* (edge_agent.py:332-333), however often the camera writes its files.
THEOREM RepeatsBounded == EdgeSpec => []RepeatsAreBounded
<1>1. ASSUME RepeatInv PROVE RepeatsAreBounded
  <2>1. EdgeTypes /\ EdgeTypeOK
    BY <1>1, TypesAreTypeOK DEF RepeatInv
  <2>2. StoredOnceUnlessFaulty
    <3> SUFFICES ASSUME count.crash = 0, NEW r \in Reads PROVE stored[r] <= 1 + count.fault
      BY DEF StoredOnceUnlessFaulty
    <3>1. /\ IsFiniteSet(Stale(r))
          /\ stored[r] + Cardinality(Stale(r)) + (IF MayStore(r) THEN 1 ELSE 0) <= 1 + count.fault
      BY <1>1 DEF RepeatInv, InBudget, Budget
    <3>2. Cardinality(Stale(r)) \in Nat
      BY <3>1, FS_CardinalityType
    <3>3. stored[r] \in Nat /\ count.fault \in Nat
      BY <2>1, BoundsAssumption DEF EdgeTypes, TableTypes
    <3> QED BY <3>1, <3>2, <3>3
  <2>3. RereadsAtMostOne
    <3> SUFFICES ASSUME deleteAfter
                 PROVE  Cardinality({f \in Frames : readings[f] > 1}) <= count.crash + count.fault
      BY DEF RereadsAtMostOne
    <3>1. IsFiniteSet(ReadAgain) /\ Cardinality(ReadAgain) <= count.crash + count.fault
      BY <1>1 DEF RepeatInv, RereadsArePaid
    <3>2. {f \in Frames : readings[f] > 1} \subseteq ReadAgain
      BY DEF ReadAgain
    <3>3. /\ Cardinality(ReadAgain) \in Nat /\ Cardinality({f \in Frames : readings[f] > 1}) \in Nat
          /\ Cardinality({f \in Frames : readings[f] > 1}) <= Cardinality(ReadAgain)
      BY <3>1, <3>2, NoMore
    <3>4. count.crash \in Nat /\ count.fault \in Nat
      BY <2>1, BoundsAssumption DEF EdgeTypes, TableTypes
    <3> QED BY <3>1, <3>3, <3>4
  <2> QED BY <2>1, <2>2, <2>3 DEF RepeatsAreBounded
<1> QED BY <1>1, InitRepeats, RepeatStep, PTL DEF EdgeSpec
=================================================================================
