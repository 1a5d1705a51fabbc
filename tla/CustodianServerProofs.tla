------------------------- MODULE CustodianServerProofs -------------------------
(***************************************************************************)
(* What the custodian's server promises for any number of connections and  *)
(* slots, any window and any limit.                                        *)
(***************************************************************************)
EXTENDS CustodianServer, FiniteSetTheorems, SequenceTheorems, TLAPS

-------------------------------------------------------------------------------
(* The limiter alone *)

LimiterNext ==
    \/ Advance \/ Forget
    \/ \E r \in Requests : ReadClock(r) \/ \E b \in Buckets : Admit(r, b) \/ Deny(r, b)

\* The calls in the window are the latest of those counted, in their order.
Gone(b) == Len(counted[b]) - Len(calls[b])

WindowIsSuffix ==
    \A b \in Buckets :
        /\ Len(calls[b]) <= Len(counted[b])
        /\ \A i \in 1 .. Len(calls[b]) : calls[b][i] = counted[b][Gone(b) + i].read

\* Those that left it were read more than a window ago, or in an earlier life.
GoneAreOld ==
    \A b \in Buckets : \A i \in 1 .. Len(counted[b]) :
        /\ counted[b][i].life <= life
        /\ i <= Gone(b) => counted[b][i].read + Window < now \/ counted[b][i].life < life

TimesPast ==
    /\ \A r \in Requests : stamp[r] <= now
    /\ limit > 0 => \A b \in Buckets : Len(calls[b]) <= limit

LimiterInv == LimiterTypeOK /\ WindowIsSuffix /\ GoneAreOld /\ TimesPast /\ TokenRateBounded

LEMMA LimiterInitInv == LimiterInit => LimiterInv
BY LimiterAssumption
   DEF LimiterInit, LimiterInv, LimiterTypeOK, WindowIsSuffix, GoneAreOld, Gone, TimesPast,
       TokenRateBounded

\* The same, with the two lengths as numbers of their own.
LEMMA LimiterFacts ==
    ASSUME LimiterInv, NEW b \in Buckets
    PROVE  \E len, size \in Nat :
              /\ len = Len(calls[b]) /\ size = Len(counted[b]) /\ len <= size
              /\ \A i \in 1 .. len :
                    calls[b][i] \in Nat /\ calls[b][i] = counted[b][size - len + i].read
              /\ \A i \in 1 .. size :
                    /\ counted[b][i].read \in Nat
                    /\ counted[b][i].at \in Nat
                    /\ counted[b][i].life \in Nat
                    /\ counted[b][i].life <= life
              /\ \A i \in 1 .. size - len :
                    counted[b][i].read + Window < now \/ counted[b][i].life < life
<1>1. calls[b] \in Seq(Nat) /\ counted[b] \in Seq(Admission)
  BY DEF LimiterInv, LimiterTypeOK
<1>2. PICK len, size \in Nat : len = Len(calls[b]) /\ size = Len(counted[b])
  BY <1>1
<1>3. len <= size /\ \A i \in 1 .. len : calls[b][i] = counted[b][size - len + i].read
  BY <1>2 DEF LimiterInv, WindowIsSuffix, Gone
<1>4. \A i \in 1 .. len : calls[b][i] \in Nat
  BY <1>1, <1>2
<1>5. \A i \in 1 .. size : counted[b][i] \in Admission
  BY <1>1, <1>2
<1>6. \A e \in Admission : e.read \in Nat /\ e.at \in Nat /\ e.life \in Nat
  BY DEF Admission
<1>7. \A i \in 1 .. size :
        /\ counted[b][i].life <= life
        /\ i <= size - len => counted[b][i].read + Window < now \/ counted[b][i].life < life
  BY <1>2 DEF LimiterInv, GoneAreOld, Gone
<1>8. \A i \in 1 .. size - len : i \in 1 .. size /\ i <= size - len
  BY <1>3
<1> QED BY <1>2, <1>3, <1>4, <1>5, <1>6, <1>7, <1>8

\* What the list holds after n times are popped from its head.
LEMMA KeptElements ==
    ASSUME LimiterTypeOK, NEW b \in Buckets, NEW n \in 0 .. Len(calls[b])
    PROVE  /\ Kept(b, n) \in Seq(Nat)
           /\ Len(Kept(b, n)) = Len(calls[b]) - n
           /\ \A i \in 1 .. Len(calls[b]) - n : Kept(b, n)[i] = calls[b][n + i]
<1>1. PICK s \in Seq(Nat), len \in Nat : s = calls[b] /\ len = Len(s)
  BY DEF LimiterTypeOK
<1>2. n + 1 \in 1 .. len + 1 /\ len \in (n + 1) - 1 .. len /\ n \in 0 .. len
  BY <1>1
<1>3. /\ SubSeq(s, n + 1, len) \in Seq(Nat)
      /\ Len(SubSeq(s, n + 1, len)) = IF n + 1 <= len THEN len - (n + 1) + 1 ELSE 0
      /\ \A i \in 1 .. len - (n + 1) + 1 : SubSeq(s, n + 1, len)[i] = s[n + 1 + i - 1]
  BY <1>1, <1>2, SubSeqProperties
<1>4. /\ (IF n + 1 <= len THEN len - (n + 1) + 1 ELSE 0) = len - n
      /\ len - (n + 1) + 1 = len - n
      /\ \A i \in 1 .. len - n : n + 1 + i - 1 = n + i
  BY <1>2
<1>5. Kept(b, n) = SubSeq(s, n + 1, len)
  BY <1>1 DEF Kept
<1> QED BY <1>1, <1>3, <1>4, <1>5

\* Popping keeps the list a suffix, and what it drops is old.
LEMMA PoppingIsSound ==
    ASSUME LimiterInv, NEW r \in Requests, NEW b \in Buckets,
           NEW n \in 0 .. Len(calls[b]), Expired(r, b, n)
    PROVE  \E kept, size \in Nat :
              /\ kept = Len(calls[b]) - n /\ size = Len(counted[b]) /\ kept <= size
              /\ Kept(b, n) \in Seq(Nat) /\ Len(Kept(b, n)) = kept
              /\ \A i \in 1 .. kept : Kept(b, n)[i] = counted[b][size - kept + i].read
              /\ \A i \in 1 .. size :
                    /\ counted[b][i].read \in Nat
                    /\ counted[b][i].at \in Nat
                    /\ counted[b][i].life \in Nat
                    /\ counted[b][i].life <= life
              /\ \A i \in 1 .. size - kept :
                    counted[b][i].read + Window < now \/ counted[b][i].life < life
<1>1. PICK len, size \in Nat :
        /\ len = Len(calls[b]) /\ size = Len(counted[b]) /\ len <= size
        /\ \A i \in 1 .. len :
              calls[b][i] \in Nat /\ calls[b][i] = counted[b][size - len + i].read
        /\ \A i \in 1 .. size :
              /\ counted[b][i].read \in Nat
              /\ counted[b][i].at \in Nat
              /\ counted[b][i].life \in Nat
              /\ counted[b][i].life <= life
        /\ \A i \in 1 .. size - len :
              counted[b][i].read + Window < now \/ counted[b][i].life < life
  BY LimiterFacts
<1>2. n \in 0 .. len
  BY <1>1
<1>7. PICK kept \in Nat : kept = len - n
  BY <1>2
<1>8. kept <= size /\ kept = Len(calls[b]) - n
  BY <1>1, <1>2, <1>7
<1>3. now \in Nat /\ Window \in Nat /\ stamp[r] \in Nat /\ stamp[r] <= now
  BY LimiterAssumption DEF LimiterInv, LimiterTypeOK, TimesPast
<1>4. Kept(b, n) \in Seq(Nat) /\ Len(Kept(b, n)) = kept
  BY <1>8, KeptElements DEF LimiterInv
<1>5. ASSUME NEW i \in 1 .. kept
      PROVE  Kept(b, n)[i] = counted[b][size - kept + i].read
  <2>1. Kept(b, n)[i] = calls[b][n + i]
    BY <1>8, KeptElements DEF LimiterInv
  <2>2. n + i \in 1 .. len /\ size - len + (n + i) = size - kept + i
    BY <1>2, <1>7
  <2>3. calls[b][n + i] = counted[b][size - len + (n + i)].read
    BY <1>1, <2>2
  <2> QED BY <2>1, <2>2, <2>3
<1>6. ASSUME NEW i \in 1 .. size - kept
      PROVE  counted[b][i].read + Window < now \/ counted[b][i].life < life
  <2>1. CASE i \in 1 .. size - len
    BY <1>1, <2>1
  <2>2. CASE i \notin 1 .. size - len
    <3> DEFINE k == i - (size - len)
    <3>1. k \in 1 .. n /\ k \in 1 .. len /\ size - len + k = i /\ i \in 1 .. size
      BY <1>2, <1>7, <2>2
    <3>2. stamp[r] - calls[b][k] > Window
      BY <3>1 DEF Expired
    <3>3. calls[b][k] = counted[b][i].read
      BY <1>1, <3>1
    <3>4. counted[b][i].read \in Nat
      BY <1>1, <3>1
    <3> HIDE DEF k
    <3> QED BY <1>3, <3>2, <3>3, <3>4
  <2> QED BY <2>1, <2>2
<1> QED BY <1>1, <1>8, <1>4, <1>5, <1>6

LEMMA AdmitKeepsInv ==
    ASSUME LimiterInv, NEW r \in Requests, NEW b \in Buckets, Admit(r, b)
    PROVE  LimiterInv'
<1>1. PICK n \in 0 .. Len(calls[b]) :
        /\ Expired(r, b, n)
        /\ Len(calls[b]) - n < limit
        /\ calls' = [calls EXCEPT ![b] = Append(Kept(b, n), stamp[r])]
        /\ counted' = [counted EXCEPT ![b] =
               Append(@, [by |-> r, read |-> stamp[r], at |-> now, life |-> life])]
        /\ stamp' = [stamp EXCEPT ![r] = 0]
        /\ UNCHANGED <<now, limit, life>>
  BY DEF Admit
<1>2. PICK kept, size \in Nat :
        /\ kept = Len(calls[b]) - n /\ size = Len(counted[b]) /\ kept <= size
        /\ Kept(b, n) \in Seq(Nat) /\ Len(Kept(b, n)) = kept
        /\ \A i \in 1 .. kept : Kept(b, n)[i] = counted[b][size - kept + i].read
        /\ \A i \in 1 .. size :
              /\ counted[b][i].read \in Nat
              /\ counted[b][i].at \in Nat
              /\ counted[b][i].life \in Nat
              /\ counted[b][i].life <= life
        /\ \A i \in 1 .. size - kept :
              counted[b][i].read + Window < now \/ counted[b][i].life < life
  BY <1>1, PoppingIsSound
<1> DEFINE entry == [by |-> r, read |-> stamp[r], at |-> now, life |-> life]
<1>3. /\ calls \in [Buckets -> Seq(Nat)] /\ counted \in [Buckets -> Seq(Admission)]
      /\ stamp \in [Requests -> Nat] /\ stamp[r] \in Nat /\ stamp[r] <= now
      /\ now \in Nat /\ life \in Nat /\ limit \in Limits /\ limit \in Nat
      /\ Window \in Nat
  BY LimiterAssumption DEF LimiterInv, LimiterTypeOK, TimesPast
<1>4. kept < limit /\ kept <= size
  BY <1>1, <1>2
<1>5. entry \in Admission /\ entry.read = stamp[r] /\ entry.at = now /\ entry.life = life
  BY <1>3 DEF Admission
<1> HIDE DEF entry
<1>6. /\ calls'[b] \in Seq(Nat)
      /\ Len(calls'[b]) = kept + 1
      /\ calls'[b][kept + 1] = stamp[r]
      /\ \A i \in 1 .. kept : calls'[b][i] = Kept(b, n)[i]
  <2>1. calls'[b] = Append(Kept(b, n), stamp[r])
    BY <1>1, <1>3
  <2> QED BY <2>1, <1>2, <1>3
<1>7. /\ counted'[b] \in Seq(Admission)
      /\ Len(counted'[b]) = size + 1
      /\ counted'[b][size + 1] = entry
      /\ \A i \in 1 .. size : counted'[b][i] = counted[b][i]
  <2>1. counted'[b] = Append(counted[b], entry)
    BY <1>1, <1>3 DEF entry
  <2> QED BY <2>1, <1>2, <1>3, <1>5
<1>8. \A c \in Buckets \ {b} :
         calls'[c] = calls[c] /\ counted'[c] = counted[c] /\ Gone(c)' = Gone(c)
  BY <1>1, <1>3 DEF Gone
<1>9. Gone(b)' = size - kept
  <2>1. Gone(b)' = (size + 1) - (kept + 1)
    BY <1>6, <1>7 DEF Gone
  <2> QED BY <2>1
<1>10. LimiterTypeOK'
  BY <1>1, <1>3, <1>6, <1>7 DEF LimiterTypeOK
<1>11. WindowIsSuffix'
  <2>1. ASSUME NEW i \in 1 .. kept + 1
        PROVE  calls'[b][i] = counted'[b][size - kept + i].read
    <3>1. CASE i = kept + 1
      <4>1. size - kept + i = size + 1
        BY <3>1
      <4> QED BY <3>1, <4>1, <1>5, <1>6, <1>7
    <3>2. CASE i \in 1 .. kept
      <4>1. size - kept + i \in 1 .. size
        BY <3>2, <1>4
      <4> QED BY <3>2, <4>1, <1>2, <1>6, <1>7
    <3> QED BY <3>1, <3>2
  <2>2. kept + 1 <= size + 1
    BY <1>4
  <2>3. /\ Len(calls'[b]) <= Len(counted'[b])
        /\ \A i \in 1 .. Len(calls'[b]) : calls'[b][i] = counted'[b][Gone(b)' + i].read
    BY <2>1, <2>2, <1>6, <1>7, <1>9
  <2>4. ASSUME NEW c \in Buckets \ {b}
        PROVE  /\ Len(calls'[c]) <= Len(counted'[c])
               /\ \A i \in 1 .. Len(calls'[c]) : calls'[c][i] = counted'[c][Gone(c)' + i].read
    BY <1>8 DEF WindowIsSuffix, LimiterInv
  <2> QED BY <2>3, <2>4 DEF WindowIsSuffix
<1>12. GoneAreOld'
  <2>1. ASSUME NEW i \in 1 .. size + 1
        PROVE  /\ counted'[b][i].life <= life
               /\ i <= size - kept => counted'[b][i].read + Window < now
                                      \/ counted'[b][i].life < life
    <3>1. CASE i = size + 1
      BY <3>1, <1>3, <1>5, <1>7
    <3>2. CASE i \in 1 .. size
      <4>1. i <= size - kept => i \in 1 .. size - kept
        BY <3>2, <1>4
      <4> QED BY <3>2, <4>1, <1>2, <1>7
    <3> QED BY <3>1, <3>2
  <2>2. \A i \in 1 .. Len(counted'[b]) :
          /\ counted'[b][i].life <= life'
          /\ i <= Gone(b)' => counted'[b][i].read + Window < now' \/ counted'[b][i].life < life'
    BY <2>1, <1>1, <1>7, <1>9
  <2>3. ASSUME NEW c \in Buckets \ {b}
        PROVE  \A i \in 1 .. Len(counted'[c]) :
                 /\ counted'[c][i].life <= life'
                 /\ i <= Gone(c)' =>
                      counted'[c][i].read + Window < now' \/ counted'[c][i].life < life'
    <3>1. counted'[c] = counted[c] /\ Gone(c)' = Gone(c) /\ now' = now /\ life' = life
      BY <1>1, <1>8
    <3> QED BY <3>1 DEF GoneAreOld, LimiterInv
  <2> QED BY <2>2, <2>3 DEF GoneAreOld
<1>13. TimesPast'
  <2>1. Len(calls'[b]) <= limit
    BY <1>3, <1>4, <1>6
  <2> QED BY <2>1, <1>1, <1>3, <1>8 DEF TimesPast, LimiterInv
<1>14. ASSUME NEW i \in 1 .. size + 1 - limit, counted'[b][i].life = counted'[b][i + limit].life
       PROVE  counted'[b][i + limit].at > counted'[b][i].read + Window
  <2>1. limit > 0 /\ i \in 1 .. size
    BY <1>3, <1>4
  <2>2. CASE i + limit = size + 1
    <3>1. i \in 1 .. size - kept
      BY <2>1, <2>2, <1>3, <1>4
    <3>2. counted'[b][i + limit] = entry
      BY <2>2, <1>7
    <3>3. counted[b][i].life = life
      BY <1>14, <2>1, <3>2, <1>5, <1>7
    <3>4. counted[b][i].read + Window < now
      BY <2>1, <3>1, <3>3, <1>2, <1>3
    <3>5. counted[b][i].read \in Nat
      BY <2>1, <1>2
    <3> QED BY <2>1, <3>2, <3>4, <3>5, <1>3, <1>5, <1>7
  <2>3. CASE i + limit # size + 1
    <3>1. i \in 1 .. size - limit /\ i + limit \in 1 .. size
      BY <2>1, <2>3, <1>3
    <3>2. counted[b][i].life = counted[b][i + limit].life
      BY <1>14, <2>1, <3>1, <1>7
    <3>3. counted[b][i + limit].at > counted[b][i].read + Window
      BY <2>1, <3>1, <3>2, <1>2 DEF TokenRateBounded, LimiterInv
    <3> QED BY <2>1, <3>1, <3>3, <1>7
  <2> QED BY <2>2, <2>3
<1>15. TokenRateBounded'
  <2>1. ASSUME NEW c \in Buckets \ {b}, NEW i \in 1 .. Len(counted'[c]) - limit,
               limit > 0, counted'[c][i].life = counted'[c][i + limit].life
        PROVE  counted'[c][i + limit].at > counted'[c][i].read + Window
    BY <2>1, <1>8 DEF TokenRateBounded, LimiterInv
  <2>2. Len(counted'[b]) - limit = size + 1 - limit
    BY <1>3, <1>7
  <2> QED BY <2>1, <2>2, <1>1, <1>14 DEF TokenRateBounded
<1> QED BY <1>10, <1>11, <1>12, <1>13, <1>15 DEF LimiterInv

LEMMA DenyKeepsInv ==
    ASSUME LimiterInv, NEW r \in Requests, NEW b \in Buckets, Deny(r, b)
    PROVE  LimiterInv'
<1>1. PICK n \in 0 .. Len(calls[b]) :
        /\ Expired(r, b, n)
        /\ calls' = [calls EXCEPT ![b] = Kept(b, n)]
        /\ stamp' = [stamp EXCEPT ![r] = 0]
        /\ UNCHANGED <<now, limit, life, counted>>
  BY DEF Deny
<1>2. PICK kept, size \in Nat :
        /\ kept = Len(calls[b]) - n /\ size = Len(counted[b]) /\ kept <= size
        /\ Kept(b, n) \in Seq(Nat) /\ Len(Kept(b, n)) = kept
        /\ \A i \in 1 .. kept : Kept(b, n)[i] = counted[b][size - kept + i].read
        /\ \A i \in 1 .. size : counted[b][i].life <= life
        /\ \A i \in 1 .. size - kept :
              counted[b][i].read + Window < now \/ counted[b][i].life < life
  BY <1>1, PoppingIsSound
<1>3. /\ calls \in [Buckets -> Seq(Nat)] /\ counted \in [Buckets -> Seq(Admission)]
      /\ stamp \in [Requests -> Nat] /\ now \in Nat /\ life \in Nat
      /\ limit \in Limits /\ limit \in Nat
  BY LimiterAssumption DEF LimiterInv, LimiterTypeOK
<1>4. calls'[b] = Kept(b, n) /\ Len(calls'[b]) = kept
  BY <1>1, <1>2, <1>3
<1>5. \A c \in Buckets \ {b} : calls'[c] = calls[c] /\ Gone(c)' = Gone(c)
  BY <1>1, <1>3 DEF Gone
<1>6. Gone(b)' = size - kept
  BY <1>1, <1>2, <1>4 DEF Gone
<1>7. LimiterTypeOK'
  BY <1>1, <1>2, <1>3 DEF LimiterTypeOK, LimiterInv
<1>8. WindowIsSuffix'
  <2>1. /\ Len(calls'[b]) <= Len(counted'[b])
        /\ \A i \in 1 .. Len(calls'[b]) : calls'[b][i] = counted'[b][Gone(b)' + i].read
    BY <1>1, <1>2, <1>4, <1>6
  <2>2. ASSUME NEW c \in Buckets \ {b}
        PROVE  /\ Len(calls'[c]) <= Len(counted'[c])
               /\ \A i \in 1 .. Len(calls'[c]) : calls'[c][i] = counted'[c][Gone(c)' + i].read
    BY <1>1, <1>5 DEF WindowIsSuffix, LimiterInv
  <2> QED BY <2>1, <2>2 DEF WindowIsSuffix
<1>9. GoneAreOld'
  <2>1. ASSUME NEW i \in 1 .. size
        PROVE  i <= size - kept => counted[b][i].read + Window < now \/ counted[b][i].life < life
    <3>1. i <= size - kept => i \in 1 .. size - kept
      BY <1>2
    <3> QED BY <3>1, <1>2
  <2>2. \A i \in 1 .. Len(counted'[b]) :
          /\ counted'[b][i].life <= life'
          /\ i <= Gone(b)' => counted'[b][i].read + Window < now' \/ counted'[b][i].life < life'
    BY <2>1, <1>1, <1>2, <1>6
  <2> QED BY <2>2, <1>1, <1>5 DEF GoneAreOld, LimiterInv
<1>10. TimesPast'
  <2>1. limit > 0 => Len(calls'[b]) <= limit
    <3>1. limit > 0 => Len(calls[b]) <= limit
      BY DEF LimiterInv, TimesPast
    <3>2. kept <= Len(calls[b])
      BY <1>2
    <3> QED BY <3>1, <3>2, <1>2, <1>3, <1>4
  <2> QED BY <2>1, <1>1, <1>3, <1>5 DEF TimesPast, LimiterInv
<1>11. TokenRateBounded'
  BY <1>1 DEF TokenRateBounded, LimiterInv
<1> QED BY <1>7, <1>8, <1>9, <1>10, <1>11 DEF LimiterInv

LEMMA LimiterKeepsInv == LimiterInv /\ [LimiterNext]_limiterVars => LimiterInv'
<1> SUFFICES ASSUME LimiterInv, [LimiterNext]_limiterVars PROVE LimiterInv'
  OBVIOUS
<1> USE LimiterAssumption
<1>1. CASE Advance
  <2>1. LimiterTypeOK' /\ WindowIsSuffix' /\ TokenRateBounded'
    <3>1. LimiterTypeOK'
      BY <1>1 DEF Advance, LimiterInv, LimiterTypeOK
    <3>2. WindowIsSuffix'
      BY <1>1 DEF Advance, LimiterInv, WindowIsSuffix, Gone
    <3>3. TokenRateBounded'
      BY <1>1 DEF Advance, LimiterInv, TokenRateBounded
    <3> QED BY <3>1, <3>2, <3>3
  <2>2. TimesPast'
    BY <1>1 DEF Advance, LimiterInv, LimiterTypeOK, TimesPast
  <2>3. \A b \in Buckets : \A i \in 1 .. Len(counted[b]) : counted[b][i].read \in Nat
    BY LimiterFacts
  <2>4. \A b \in Buckets : Gone(b)' = Gone(b)
    BY <1>1 DEF Advance, Gone
  <2>5. GoneAreOld'
    BY <1>1, <2>3, <2>4 DEF Advance, LimiterInv, LimiterTypeOK, GoneAreOld
  <2> QED BY <2>1, <2>2, <2>5 DEF LimiterInv
<1>2. CASE Forget
  <2>1. LimiterTypeOK' /\ TimesPast' /\ TokenRateBounded'
    BY <1>2 DEF Forget, LimiterInv, LimiterTypeOK, TimesPast, TokenRateBounded
  <2>2. \A b \in Buckets : calls'[b] = <<>> /\ Len(calls'[b]) = 0 /\ counted'[b] = counted[b]
    BY <1>2 DEF Forget
  <2>3. \A b \in Buckets : Len(counted[b]) \in Nat
    BY DEF LimiterInv, LimiterTypeOK
  <2>4. WindowIsSuffix'
    BY <2>2, <2>3 DEF WindowIsSuffix
  <2>5. \A b \in Buckets : \A i \in 1 .. Len(counted[b]) :
          counted[b][i].life \in Nat /\ counted[b][i].life <= life
    BY LimiterFacts
  <2>6. GoneAreOld'
    <3>1. life \in Nat /\ life' = life + 1
      BY <1>2 DEF Forget, LimiterInv, LimiterTypeOK
    <3>2. ASSUME NEW b \in Buckets, NEW i \in 1 .. Len(counted'[b])
          PROVE  counted'[b][i].life < life' /\ counted'[b][i].life <= life'
      <4>1. counted'[b][i].life \in Nat /\ counted'[b][i].life <= life
        BY <2>2, <2>5
      <4> QED BY <3>1, <4>1
    <3> QED BY <3>2 DEF GoneAreOld
  <2> QED BY <2>1, <2>4, <2>6 DEF LimiterInv
<1>3. ASSUME NEW r \in Requests, ReadClock(r) PROVE LimiterInv'
  <2>1. LimiterTypeOK' /\ TimesPast'
    BY <1>3 DEF ReadClock, LimiterInv, LimiterTypeOK, TimesPast
  <2>2. WindowIsSuffix' /\ GoneAreOld'
    BY <1>3 DEF ReadClock, LimiterInv, WindowIsSuffix, GoneAreOld, Gone
  <2>3. TokenRateBounded'
    BY <1>3 DEF ReadClock, LimiterInv, TokenRateBounded
  <2> QED BY <2>1, <2>2, <2>3 DEF LimiterInv
<1>4. CASE UNCHANGED limiterVars
  BY <1>4 DEF limiterVars, LimiterInv, LimiterTypeOK, WindowIsSuffix, GoneAreOld, Gone,
              TimesPast, TokenRateBounded
<1> QED BY <1>1, <1>2, <1>3, <1>4, AdmitKeepsInv, DenyKeepsInv DEF LimiterNext

-------------------------------------------------------------------------------
(* The server around it *)

\* A step of the server is a step of the limiter, or leaves it alone.
LEMMA ServerUsesLimiter == [Next]_vars => [LimiterNext]_limiterVars
<1> SUFFICES ASSUME Next PROVE [LimiterNext]_limiterVars
  BY DEF vars, limiterVars
<1>1. \A c \in Requests : Bucket(c) \in Buckets
  BY ServerAssumption DEF Bucket
<1>2. CASE Tick \/ Start
  BY <1>2 DEF Tick, Start, LimiterNext
<1>3. CASE Crash
  BY <1>3 DEF Crash, Exit
<1>4. ASSUME NEW c \in Requests, Connect(c) \/ Serve(c) PROVE [LimiterNext]_limiterVars
  <2>1. CASE EnterLimiter(c)
    BY <2>1 DEF EnterLimiter, LimiterNext
  <2>2. CASE Count(c)
    BY <2>2, <1>1 DEF Count, LimiterNext
  <2>3. CASE UNCHANGED limiterVars
    BY <2>3
  <2> QED BY <1>4, <2>1, <2>2, <2>3
       DEF Serve, Connect, Accept, BeginThread, NoThread, Exit, ReadPiece, ReadFrame, PeerGone,
           ReadTimeout, Dispatch, Record, Answer, Close
<1> QED BY <1>2, <1>3, <1>4 DEF Next

(***************************************************************************)
(* No stretch of limit + 1 admissions of one life fits in a window, for    *)
(* any limit, any window, any number of threads and buckets, and however   *)
(* long a thread sleeps between its clock and the lock.                    *)
(***************************************************************************)
THEOREM TokenRateHolds == Spec => []TokenRateBounded
<1>1. Init => LimiterInv
  BY LimiterInitInv DEF Init
<1>2. LimiterInv /\ [Next]_vars => LimiterInv'
  BY LimiterKeepsInv, ServerUsesLimiter
<1>3. LimiterInv => TokenRateBounded
  BY DEF LimiterInv
<1> QED BY <1>1, <1>2, <1>3, PTL DEF Spec

\* Where each connection can be, and what its handler can have in hand.
PlacesOK ==
    /\ LimiterTypeOK
    /\ transport \in {"vsock", "http"}
    /\ up \in BOOLEAN
    /\ slots \in Nat
    /\ pc \in [Requests -> Open \cup {"idle", "ended"}]
    /\ reply \in [Requests -> Replies]
    /\ got \in [Requests -> Replies \cup {"refused"}]
    /\ ~up => \A c \in Requests : pc[c] \in {"idle", "ended"}

SlotsInv == PlacesOK /\ SlotsConserved

LEMMA OneMoreHolder ==
    ASSUME PlacesOK, NEW c \in Requests, pc[c] \notin Held, NEW place \in Held,
           Goto(c, place)
    PROVE  Cardinality(Holders') = Cardinality(Holders) + 1
<1>1. IsFiniteSet(Holders)
  BY FS_Subset, ServerAssumption DEF Holders
<1>2. Holders' = Holders \cup {c} /\ c \notin Holders
  BY DEF Holders, Goto, PlacesOK
<1> QED BY <1>1, <1>2, FS_AddElement

LEMMA OneHolderLess ==
    ASSUME PlacesOK, NEW c \in Requests, pc[c] \in Held, Goto(c, "ended")
    PROVE  Cardinality(Holders') = Cardinality(Holders) - 1
<1>1. IsFiniteSet(Holders)
  BY FS_Subset, ServerAssumption DEF Holders
<1>2. Holders' = Holders \ {c} /\ c \in Holders
  BY DEF Holders, Goto, PlacesOK, Held
<1> QED BY <1>1, <1>2, FS_RemoveElement

LEMMA SlotsInit == Init => SlotsInv
<1> SUFFICES ASSUME Init PROVE SlotsInv
  OBVIOUS
<1>1. LimiterTypeOK
  BY LimiterInitInv DEF Init, LimiterInv
<1>2. PlacesOK
  BY <1>1, ServerAssumption DEF Init, PlacesOK, Replies
<1>3. Holders = {}
  BY DEF Init, Holders, Held
<1>4. slots + Cardinality(Holders) = MaxConnections
  BY <1>3, FS_EmptySet, ServerAssumption DEF Init
<1> QED BY <1>2, <1>4 DEF SlotsInv, SlotsConserved

LEMMA SlotsStep ==
    ASSUME SlotsInv, LimiterInv, [Next]_vars PROVE SlotsInv'
<1> USE DEF SlotsInv
<1>1. LimiterTypeOK'
  BY LimiterKeepsInv, ServerUsesLimiter DEF LimiterInv
<1>2. Cardinality(Holders) \in Nat
  BY FS_CardinalityType, FS_Subset, ServerAssumption DEF Holders
<1>3. CASE UNCHANGED vars \/ Tick
  <2>1. UNCHANGED <<transport, up, slots, pc, reply, got>>
    BY <1>3 DEF vars, Tick
  <2>2. PlacesOK' /\ Holders' = Holders
    BY <1>1, <2>1 DEF PlacesOK, Holders
  <2> QED BY <2>1, <2>2 DEF SlotsConserved
<1>4. ASSUME Exit PROVE SlotsInv'
  BY <1>1, <1>4, ServerAssumption DEF Exit, PlacesOK, SlotsConserved, Open, Held, Replies
<1>5. CASE Start
  <2>1. PlacesOK'
    BY <1>1, <1>5, ServerAssumption DEF Start, PlacesOK
  <2>2. Holders' = {}
    BY <1>5 DEF Start, PlacesOK, Holders, Held
  <2>3. slots' = MaxConnections /\ MaxConnections \in Nat
    BY <1>5, ServerAssumption DEF Start
  <2>4. Cardinality(Holders') = 0
    BY <2>2, FS_EmptySet
  <2> QED BY <2>1, <2>3, <2>4 DEF SlotsConserved
<1>6. ASSUME NEW c \in Requests, Accept(c) PROVE SlotsInv'
  <2>0. up
    BY <1>6 DEF Accept, PlacesOK
  <2>1. PlacesOK'
    BY <1>1, <1>6, <2>0 DEF Accept, Goto, PlacesOK, Open, Held
  <2>2. CASE Goto(c, "accepted")
    <3>1. Cardinality(Holders') = Cardinality(Holders) + 1
      BY <1>6, <2>2, OneMoreHolder DEF Accept, Held
    <3>2. transport = "vsock" => slots' = slots - 1
      BY <1>6, <2>2 DEF Accept, Goto, PlacesOK
    <3> QED BY <1>2, <1>6, <2>0, <2>1, <3>1, <3>2 DEF Accept, SlotsConserved, PlacesOK
  <2>3. CASE Goto(c, "ended") /\ UNCHANGED slots
    <3>1. Holders' = Holders
      BY <1>6, <2>3 DEF Accept, Goto, Holders, Held, PlacesOK
    <3>2. UNCHANGED <<transport, up, slots>>
      BY <1>6, <2>3 DEF Accept
    <3> QED BY <2>1, <3>1, <3>2 DEF SlotsConserved
  <2> QED BY <1>6, <2>2, <2>3 DEF Accept
<1>7. ASSUME NEW c \in Requests, Close(c) PROVE SlotsInv'
  <2>1. PlacesOK'
    BY <1>1, <1>7 DEF Close, Goto, PlacesOK
  <2>2. Cardinality(Holders') = Cardinality(Holders) - 1
    BY <1>7, OneHolderLess DEF Close, Held
  <2> QED BY <1>2, <1>7, <2>1, <2>2 DEF Close, SlotsConserved, PlacesOK
<1>8. ASSUME NEW c \in Requests, pc[c] \in Held, NEW place \in Held, Goto(c, place),
             reply' \in [Requests -> Replies], got' \in [Requests -> Replies \cup {"refused"}],
             UNCHANGED <<transport, up, slots>>
      PROVE  SlotsInv'
  <2>1. PlacesOK'
    BY <1>1, <1>8 DEF Goto, PlacesOK, Open, Held
  <2>2. Holders' = Holders
    BY <1>8 DEF Goto, Holders, PlacesOK
  <2> QED BY <1>8, <2>1, <2>2 DEF SlotsConserved
<1>9. ASSUME NEW c \in Requests, Connect(c) PROVE SlotsInv'
  <2>1. PlacesOK'
    BY <1>1, <1>9 DEF Connect, Goto, PlacesOK, Open
  <2>2. Holders' = Holders
    BY <1>9 DEF Connect, Goto, Holders, PlacesOK, Held
  <2> QED BY <1>9, <2>1, <2>2 DEF Connect, SlotsConserved
<1>10. ASSUME NEW c \in Requests, ReadPiece(c) PROVE SlotsInv'
  BY <1>1, <1>10 DEF ReadPiece, PlacesOK, SlotsConserved, Holders
<1>11. ASSUME NEW c \in Requests, BeginThread(c) \/ PeerGone(c) \/ ReadTimeout(c) PROVE SlotsInv'
  BY <1>8, <1>11 DEF BeginThread, PeerGone, ReadTimeout, Held, PlacesOK
<1>12. ASSUME NEW c \in Requests, ReadFrame(c) \/ Dispatch(c) PROVE SlotsInv'
  <2>1. reply' \in [Requests -> Replies]
    BY <1>12 DEF ReadFrame, Dispatch, Prepare, PlacesOK, Replies
  <2> QED BY <1>8, <1>12, <2>1 DEF ReadFrame, Dispatch, Held, PlacesOK
<1>13. ASSUME NEW c \in Requests, EnterLimiter(c) \/ Count(c) \/ Record(c) PROVE SlotsInv'
  <2>1. reply' \in [Requests -> Replies]
    BY <1>13 DEF EnterLimiter, Count, Record, Prepare, PlacesOK, Replies
  <2> QED BY <1>8, <1>13, <2>1 DEF EnterLimiter, Count, Record, Held, PlacesOK
<1>14. ASSUME NEW c \in Requests, Answer(c) PROVE SlotsInv'
  <2>1. reply' \in [Requests -> Replies] /\ got' \in [Requests -> Replies \cup {"refused"}]
    BY <1>14 DEF Answer, Prepare, PlacesOK, Replies
  <2> QED BY <1>8, <1>14, <2>1 DEF Answer, Held
<1>15. ASSUME NEW c \in Requests, NoThread(c) PROVE SlotsInv'
  BY <1>4, <1>8, <1>15 DEF NoThread, Held, PlacesOK
<1> QED
  BY <1>3, <1>4, <1>5, <1>6, <1>7, <1>9, <1>10, <1>11, <1>12, <1>13, <1>14, <1>15
     DEF Next, Crash, Serve

(***************************************************************************)
(* Every way out of a connection gives its slot back once, so on vsock at  *)
(* most MaxConnections are held, and exactly that many when one is refused. *)
(***************************************************************************)
THEOREM SlotsHold == Spec => []SlotsConserved
<1>1. Init => SlotsInv /\ LimiterInv
  BY SlotsInit, LimiterInitInv DEF Init
<1>2. (SlotsInv /\ LimiterInv) /\ [Next]_vars => (SlotsInv /\ LimiterInv)'
  BY SlotsStep, LimiterKeepsInv, ServerUsesLimiter
<1>3. SlotsInv => SlotsConserved
  BY DEF SlotsInv
<1> QED BY <1>1, <1>2, <1>3, PTL DEF Spec

\* The calls a bucket counted for one connection.
Counted(c) == \E i \in 1 .. Len(counted[Bucket(c)]) : counted[Bucket(c)][i].by = c

\* A token in a handler's hand has passed the approval and the limiter, and,
\* when the answer is next, the ledger.
PaidSoFar ==
    \A c \in Requests :
        /\ pc[c] \in {"clocking", "counting"} =>
               (ask[c].op = "search-token" => ask[c].approved)
        /\ reply[c] = "token" =>
               /\ pc[c] \in {"recording", "answering"}
               /\ pc[c] = "answering" => <<c, "token">> \in ledger
               /\ limit > 0 => Counted(c)
               /\ ask[c].op = "search-token" => ask[c].approved

PaidInv == SlotsInv /\ LimiterInv /\ PaidSoFar /\ TokensArePaidFor

\* The history of a bucket only grows.
LEMMA CountedStays ==
    ASSUME LimiterInv, [Next]_vars, NEW c \in Requests, Counted(c)
    PROVE  Counted(c)'
<1>1. ask' = ask
  BY DEF vars, Next, Tick, Advance, Crash, Exit, Start, Connect, Serve, Accept, BeginThread,
         NoThread, ReadPiece, ReadFrame, PeerGone, ReadTimeout, Dispatch, EnterLimiter, Count,
         Record, Answer, Close
<1>2. Bucket(c)' = Bucket(c) /\ Bucket(c) \in Buckets
  BY <1>1, ServerAssumption DEF Bucket
<1>3. CASE counted' = counted
  BY <1>2, <1>3 DEF Counted
<1>4. ASSUME NEW r \in Requests, NEW b \in Buckets, Admit(r, b) PROVE Counted(c)'
  <2>1. counted \in [Buckets -> Seq(Admission)]
    BY DEF LimiterInv, LimiterTypeOK
  <2>2. PICK e : counted' = [counted EXCEPT ![b] = Append(@, e)]
    BY <1>4 DEF Admit
  <2>3. PICK i \in 1 .. Len(counted[Bucket(c)]) : counted[Bucket(c)][i].by = c
    BY DEF Counted
  <2>4. i \in 1 .. Len(counted'[Bucket(c)]) /\ counted'[Bucket(c)][i] = counted[Bucket(c)][i]
    BY <1>2, <2>1, <2>2, <2>3
  <2> QED BY <1>2, <2>3, <2>4 DEF Counted
<1>5. [LimiterNext]_limiterVars
  BY ServerUsesLimiter
<1> QED BY <1>3, <1>4, <1>5
     DEF LimiterNext, limiterVars, Advance, Forget, ReadClock, Deny

LEMMA PaidStep == PaidInv /\ [Next]_vars => PaidInv'
<1> SUFFICES ASSUME PaidInv, [Next]_vars PROVE PaidSoFar' /\ TokensArePaidFor'
  BY SlotsStep, LimiterKeepsInv, ServerUsesLimiter DEF PaidInv
<1> USE DEF PaidInv
<1>1. \A c \in Requests : Counted(c) => Counted(c)'
  BY CountedStays
<1>2. /\ pc \in [Requests -> Open \cup {"idle", "ended"}]
      /\ reply \in [Requests -> Replies] /\ got \in [Requests -> Replies \cup {"refused"}]
  BY DEF SlotsInv, PlacesOK
<1>3. TokensArePaidFor = \A c \in Requests : got[c] = "token" =>
          <<c, "token">> \in ledger /\ (limit > 0 => Counted(c))
          /\ (ask[c].op = "search-token" => ask[c].approved)
  BY DEF TokensArePaidFor, Counted
\* Every step but four leaves what a handler holds alone, or drops it.
<1>4. ASSUME UNCHANGED <<limit, ask, ledger>>,
             \A c \in Requests : got'[c] = "token" => got[c] = "token",
             \A c \in Requests : pc'[c] \in {"clocking", "counting"} =>
                 (ask[c].op = "search-token" => ask[c].approved),
             \A c \in Requests : reply'[c] = "token" => reply[c] = "token" /\ pc'[c] = pc[c]
      PROVE  PaidSoFar' /\ TokensArePaidFor'
  BY <1>1, <1>4 DEF PaidSoFar, TokensArePaidFor, Counted
<1>5. CASE UNCHANGED vars
  BY <1>4, <1>5 DEF vars, limiterVars, PaidSoFar
<1>6. CASE Tick \/ Start
  BY <1>4, <1>6 DEF Tick, Start, Advance, Forget, PaidSoFar
<1>7. ASSUME Exit PROVE PaidSoFar' /\ TokensArePaidFor'
  <2>1. \A c \in Requests : pc'[c] \in {"clocking", "counting"} => pc[c] = pc'[c]
    BY <1>7, <1>2 DEF Exit, Open
  <2> QED BY <1>4, <1>7, <2>1 DEF Exit, limiterVars, PaidSoFar
<1>8. ASSUME NEW c \in Requests,
             \/ Connect(c) \/ Accept(c) \/ BeginThread(c) \/ ReadPiece(c) \/ ReadFrame(c)
             \/ PeerGone(c) \/ ReadTimeout(c) \/ Close(c) \/ Dispatch(c)
      PROVE  PaidSoFar' /\ TokensArePaidFor'
  <2>1. UNCHANGED <<limit, ask, ledger>>
    BY <1>8 DEF Connect, Accept, BeginThread, ReadPiece, ReadFrame, PeerGone, ReadTimeout, Close,
                Dispatch, limiterVars
  <2>2. \A d \in Requests : got'[d] = "token" => got[d] = "token"
    BY <1>8, <1>2 DEF Connect, Accept, BeginThread, ReadPiece, ReadFrame, PeerGone, ReadTimeout,
                      Close, Dispatch
  <2>3. \A d \in Requests \ {c} : pc'[d] = pc[d] /\ reply'[d] = reply[d]
    BY <1>8, <1>2 DEF Connect, Accept, BeginThread, ReadPiece, ReadFrame, PeerGone, ReadTimeout,
                      Close, Dispatch, Goto, Prepare
  <2>4. pc'[c] \in {"clocking", "counting"} => (ask[c].op = "search-token" => ask[c].approved)
    BY <1>8, <1>2 DEF Connect, Accept, BeginThread, ReadPiece, ReadFrame, PeerGone, ReadTimeout,
                      Close, Dispatch, Goto
  <2>5. reply'[c] # "token"
    BY <1>8, <1>2 DEF Connect, Accept, BeginThread, ReadPiece, ReadFrame, PeerGone, ReadTimeout,
                      Close, Dispatch, Goto, Prepare, PaidSoFar
  <2> QED BY <1>4, <2>1, <2>2, <2>3, <2>4, <2>5 DEF PaidSoFar
<1>9. ASSUME NEW c \in Requests, NoThread(c) PROVE PaidSoFar' /\ TokensArePaidFor'
  <2>1. CASE Exit
    BY <1>7, <2>1
  <2>2. CASE ~Exit
    <3>1. UNCHANGED <<limit, ask, ledger, got, reply>> /\ Goto(c, "closing")
      BY <1>9, <2>2 DEF NoThread, limiterVars
    <3>2. reply[c] # "token"
      BY <1>9 DEF NoThread, PaidSoFar
    <3> QED BY <1>2, <1>4, <3>1, <3>2 DEF Goto, PaidSoFar
  <2> QED BY <2>1, <2>2
<1>10. ASSUME NEW c \in Requests, EnterLimiter(c) PROVE PaidSoFar' /\ TokensArePaidFor'
  <2>1. UNCHANGED <<limit, ask, ledger, got>>
    BY <1>10 DEF EnterLimiter, ReadClock, limiterVars
  <2>2. \A d \in Requests \ {c} : pc'[d] = pc[d] /\ reply'[d] = reply[d]
    BY <1>10, <1>2 DEF EnterLimiter, Goto, Prepare
  <2>3. CASE limit = 0 /\ reply'[c] = "token" /\ pc'[c] = "recording"
    <3>1. ask[c].op = "search-token" => ask[c].approved
      BY <1>10 DEF EnterLimiter, PaidSoFar
    <3> QED BY <1>1, <2>1, <2>2, <2>3, <3>1 DEF PaidSoFar, TokensArePaidFor, Counted
  <2>4. CASE reply' = reply /\ pc'[c] = "counting"
    <3>1. (ask[c].op = "search-token" => ask[c].approved) /\ reply[c] # "token"
      BY <1>10 DEF EnterLimiter, PaidSoFar
    <3> QED BY <1>4, <2>1, <2>2, <2>4, <3>1 DEF PaidSoFar
  <2> QED BY <1>10, <1>2, <2>3, <2>4 DEF EnterLimiter, Goto, Prepare
<1>11. ASSUME NEW c \in Requests, Count(c) PROVE PaidSoFar' /\ TokensArePaidFor'
  <2>1. UNCHANGED <<limit, ask, ledger, got>>
    BY <1>11 DEF Count, Admit, Deny
  <2>2. /\ \A d \in Requests \ {c} : pc'[d] = pc[d] /\ reply'[d] = reply[d]
        /\ pc'[c] = "recording"
    BY <1>11, <1>2 DEF Count, Goto, Prepare
  <2>3. CASE Deny(c, Bucket(c)) /\ Prepare(c, "limited")
    <3>1. reply'[c] # "token"
      BY <2>3, <1>2 DEF Prepare
    <3> QED BY <1>4, <2>1, <2>2, <3>1 DEF PaidSoFar
  <2>4. CASE Admit(c, Bucket(c)) /\ Prepare(c, "token")
    <3>1. ask[c].op = "search-token" => ask[c].approved
      BY <1>11 DEF Count, PaidSoFar
    <3>2. Counted(c)'
      <4>1. Bucket(c)' = Bucket(c) /\ Bucket(c) \in Buckets
        BY <2>1, ServerAssumption DEF Bucket
      <4>2. /\ counted[Bucket(c)] \in Seq(Admission)
            /\ counted \in [Buckets -> Seq(Admission)]
        BY <4>1 DEF LimiterInv, LimiterTypeOK
      <4>3. PICK e : e.by = c /\ counted' = [counted EXCEPT ![Bucket(c)] = Append(@, e)]
        BY <2>4 DEF Admit
      <4>4. counted'[Bucket(c)] = Append(counted[Bucket(c)], e)
        BY <4>1, <4>2, <4>3
      <4>5. /\ Len(counted'[Bucket(c)]) = Len(counted[Bucket(c)]) + 1
            /\ Len(counted[Bucket(c)]) \in Nat
            /\ counted'[Bucket(c)][Len(counted[Bucket(c)]) + 1] = e
        BY <4>2, <4>4
      <4>6. Len(counted[Bucket(c)]) + 1 \in 1 .. Len(counted'[Bucket(c)])
        BY <4>5
      <4> QED BY <4>1, <4>3, <4>5, <4>6 DEF Counted
    <3> QED BY <1>1, <2>1, <2>2, <3>1, <3>2 DEF PaidSoFar, TokensArePaidFor, Counted
  <2> QED BY <1>11, <2>3, <2>4 DEF Count
<1>12. ASSUME NEW c \in Requests, Record(c) PROVE PaidSoFar' /\ TokensArePaidFor'
  <2>1. /\ UNCHANGED <<limit, ask, got, counted>>
        /\ ledger \subseteq ledger'
        /\ \A d \in Requests \ {c} : pc'[d] = pc[d] /\ reply'[d] = reply[d]
        /\ pc'[c] \in {"answering", "closing"} /\ pc[c] = "recording"
    BY <1>12, <1>2 DEF Record, Goto, Prepare, limiterVars
  <2>2. reply'[c] = "token" =>
          reply[c] = "token" /\ pc'[c] = "answering" /\ <<c, "token">> \in ledger'
    BY <1>12, <1>2 DEF Record, Goto, Prepare
  <2> QED BY <1>1, <2>1, <2>2 DEF PaidSoFar, TokensArePaidFor, Counted
<1>13. ASSUME NEW c \in Requests, Answer(c) PROVE PaidSoFar' /\ TokensArePaidFor'
  <2>1. /\ UNCHANGED <<limit, ask, ledger, counted>>
        /\ \A d \in Requests \ {c} : pc'[d] = pc[d] /\ reply'[d] = reply[d] /\ got'[d] = got[d]
        /\ pc'[c] = "closing" /\ pc[c] = "answering" /\ reply'[c] = "none"
        /\ got'[c] = got[c] \/ got'[c] = reply[c]
    BY <1>13, <1>2 DEF Answer, Goto, Prepare, limiterVars
  <2> QED BY <1>1, <2>1 DEF PaidSoFar, TokensArePaidFor, Counted
<1> QED
  BY <1>5, <1>6, <1>7, <1>8, <1>9, <1>10, <1>11, <1>12, <1>13 DEF Next, Serve, Crash

(***************************************************************************)
(* No caller holds a token that was not recorded, counted by the limiter   *)
(* and, for a search, approved, whatever died in between.                  *)
(***************************************************************************)
THEOREM TokensPaid == Spec => []TokensArePaidFor
<1>1. Init => PaidInv
  <2>1. Init => PaidSoFar /\ TokensArePaidFor
    BY DEF Init, PaidSoFar, TokensArePaidFor
  <2> QED BY <2>1, SlotsInit, LimiterInitInv DEF Init, PaidInv
<1>2. PaidInv => TokensArePaidFor
  BY DEF PaidInv
<1> QED BY <1>1, <1>2, PaidStep, PTL DEF Spec

\* What a handler is about to record is the fate of a token.
RecordsFate ==
    \A c \in Requests : pc[c] = "recording" => reply[c] \in {"token", "limited", "unapproved"}

\* The rest of the types: the parts of a frame and the entries of the ledger.
RestOK ==
    /\ ask \in Mixes
    /\ pieces \in [Requests -> 0 .. MaxPieces]
    /\ ledger \subseteq (Requests \X {"token", "limited", "unapproved"})
    /\ RecordsFate

LEMMA RestStep == ASSUME SlotsInv, RestOK, [Next]_vars PROVE RestOK'
<1>t. /\ pc \in [Requests -> Open \cup {"idle", "ended"}]
      /\ reply \in [Requests -> Replies]
      /\ MaxPieces \in Nat
  BY ServerAssumption DEF SlotsInv, PlacesOK
<1>1. ASSUME NEW c \in Requests, Dispatch(c) \/ EnterLimiter(c) \/ Count(c) PROVE RestOK'
  <2>1. UNCHANGED <<ask, pieces, ledger>>
    BY <1>1 DEF Dispatch, EnterLimiter, Count
  <2>2. \A d \in Requests : d # c => pc'[d] = pc[d] /\ reply'[d] = reply[d]
    BY <1>t, <1>1 DEF Dispatch, EnterLimiter, Count, Goto, Prepare
  <2>3. pc'[c] = "recording" => reply'[c] \in {"token", "limited", "unapproved"}
    BY <1>t, <1>1 DEF Dispatch, EnterLimiter, Count, Goto, Prepare
  <2> QED BY <2>1, <2>2, <2>3 DEF RestOK, RecordsFate
<1>2. ASSUME NEW c \in Requests, Record(c) PROVE RestOK'
  <2>1. /\ UNCHANGED <<ask, pieces>> /\ pc'[c] # "recording"
        /\ \A d \in Requests : d # c => pc'[d] = pc[d] /\ reply'[d] = reply[d]
    BY <1>t, <1>2 DEF Record, Goto, Prepare
  <2>2. ledger' \subseteq ledger \cup {<<c, reply[c]>>}
    BY <1>2 DEF Record
  <2>3. reply[c] \in {"token", "limited", "unapproved"}
    BY <1>2 DEF Record, RestOK, RecordsFate
  <2> QED BY <2>1, <2>2, <2>3 DEF RestOK, RecordsFate
<1>3. ASSUME UNCHANGED <<ask, ledger>>, pieces' \in [Requests -> 0 .. MaxPieces],
             \A d \in Requests : pc'[d] = "recording" => pc[d] = "recording" /\ reply'[d] = reply[d]
      PROVE  RestOK'
  BY <1>3 DEF RestOK, RecordsFate
<1>4. ASSUME NEW c \in Requests, ReadPiece(c) \/ ReadFrame(c) \/ PeerGone(c) \/ ReadTimeout(c)
      PROVE  RestOK'
  <2>1. UNCHANGED <<ask, ledger>> /\ pieces' \in [Requests -> 0 .. MaxPieces]
    BY <1>t, <1>4 DEF ReadPiece, ReadFrame, PeerGone, ReadTimeout, RestOK
  <2>2. pc[c] = "reading" /\ pc'[c] # "recording"
    BY <1>t, <1>4 DEF ReadPiece, ReadFrame, PeerGone, ReadTimeout, Goto
  <2>3. \A d \in Requests : d # c => pc'[d] = pc[d] /\ reply'[d] = reply[d]
    BY <1>t, <1>4 DEF ReadPiece, ReadFrame, PeerGone, ReadTimeout, Goto, Prepare
  <2> QED BY <1>3, <2>1, <2>2, <2>3
<1>5. ASSUME NEW c \in Requests,
             Connect(c) \/ Accept(c) \/ BeginThread(c) \/ Answer(c) \/ Close(c)
      PROVE  RestOK'
  <2>1. UNCHANGED <<ask, ledger, pieces>> /\ pc'[c] # "recording"
    BY <1>t, <1>5 DEF Connect, Accept, BeginThread, Answer, Close, Goto
  <2>2. \A d \in Requests : d # c => pc'[d] = pc[d] /\ reply'[d] = reply[d]
    BY <1>t, <1>5 DEF Connect, Accept, BeginThread, Answer, Close, Goto, Prepare
  <2> QED BY <2>1, <2>2 DEF RestOK, RecordsFate
<1>6. ASSUME Exit PROVE RestOK'
  <2>1. UNCHANGED <<ask, ledger>> /\ pieces' = [c \in Requests |-> 0]
    BY <1>6 DEF Exit
  <2>2. \A d \in Requests : pc'[d] # "recording"
    BY <1>t, <1>6 DEF Exit, Open, Held
  <2> QED BY <1>t, <1>3, <2>1, <2>2
<1>7. ASSUME NEW c \in Requests, NoThread(c) PROVE RestOK'
  <2>1. CASE /\ transport = "http" /\ Goto(c, "closing")
             /\ UNCHANGED <<ask, pieces, reply, ledger>>
    BY <1>t, <2>1 DEF Goto, RestOK, RecordsFate
  <2> QED BY <1>6, <1>7, <2>1 DEF NoThread
<1>8. CASE Tick \/ Start \/ UNCHANGED vars
  BY <1>8 DEF Tick, Start, vars, RestOK, RecordsFate
<1> QED BY <1>1, <1>2, <1>4, <1>5, <1>6, <1>7, <1>8 DEF Next, Serve, Crash

(***************************************************************************)
(* Every variable of the process keeps its type; the ledger holds nothing  *)
(* but fates of tokens, also when a handler dies before its entry.         *)
(***************************************************************************)
THEOREM ServerTypes == Spec => []TypeOK
<1>1. Init => SlotsInv /\ LimiterInv /\ RestOK
  <2>1. Init => RestOK
    BY ServerAssumption DEF Init, RestOK, RecordsFate
  <2> QED BY <2>1, SlotsInit, LimiterInitInv DEF Init
<1>2. (SlotsInv /\ LimiterInv /\ RestOK) /\ [Next]_vars => (SlotsInv /\ LimiterInv /\ RestOK)'
  BY SlotsStep, LimiterKeepsInv, ServerUsesLimiter, RestStep
<1>3. SlotsInv /\ RestOK => TypeOK
  BY DEF SlotsInv, PlacesOK, RestOK, TypeOK
<1> QED BY <1>1, <1>2, <1>3, PTL DEF Spec
===============================================================================
