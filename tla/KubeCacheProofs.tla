-------------------------- MODULE KubeCacheProofs --------------------------
(***************************************************************************)
(* Facts about the informer cache that the other proofs cite.              *)
(***************************************************************************)
EXTENDS KubeCache, TLAPS

\* A read through the cache returns a version of the object.
LEMMA ViewType ==
    ASSUME NEW S, NEW now \in S, NEW lag \in Seq(S)
    PROVE  View(now, lag) \in S
BY DEF View

\* A write keeps the backlog a bounded sequence of versions.
LEMMA PushedType ==
    ASSUME NEW S, NEW now \in S, NEW new \in S, NEW lag \in Seq(S),
           NEW max \in Nat, Len(lag) <= max
    PROVE  /\ Pushed(lag, now, new, max) \in Seq(S)
           /\ Len(Pushed(lag, now, new, max)) <= max
<1>1. CASE new = now
  BY <1>1 DEF Pushed
<1>2. CASE new # now /\ Len(lag) < max
  BY <1>2 DEF Pushed
<1>3. CASE new # now /\ ~(Len(lag) < max) /\ max = 0
  BY <1>3 DEF Pushed
<1>4. CASE new # now /\ ~(Len(lag) < max) /\ max # 0
  <2>1. lag # <<>> /\ Len(lag) = max
    BY <1>4
  <2>2. Tail(lag) \in Seq(S) /\ Len(Tail(lag)) = max - 1
    BY <2>1
  <2>3. Append(Tail(lag), now) \in Seq(S) /\ Len(Append(Tail(lag), now)) = max
    BY <2>2
  <2> QED
    BY <1>4, <2>3 DEF Pushed
<1> QED
  BY <1>1, <1>2, <1>3, <1>4

\* The watch delivers a version: the rest of the backlog is still one.
LEMMA TailType ==
    ASSUME NEW S, NEW lag \in Seq(S), lag # <<>>, NEW max \in Nat, Len(lag) <= max
    PROVE  Tail(lag) \in Seq(S) /\ Len(Tail(lag)) <= max
<1>1. Len(Tail(lag)) = Len(lag) - 1 /\ Len(lag) \in Nat
  OBVIOUS
<1> QED
  BY <1>1

\* A write that changes nothing leaves the backlog alone.  After any other one
\* the version it replaced is the youngest of the backlog, and every other
\* version was there before and is one write older now.
LEMMA PushedAge ==
    ASSUME NEW S, NEW now \in S, NEW new \in S, NEW lag \in Seq(S),
           NEW max \in Nat, Len(lag) <= max
    PROVE  \/ new = now /\ Pushed(lag, now, new, max) = lag
           \/ \A i \in DOMAIN Pushed(lag, now, new, max) :
                 \/ /\ Pushed(lag, now, new, max)[i] = now
                    /\ i = Len(Pushed(lag, now, new, max))
                 \/ \E k \in DOMAIN lag :
                       /\ Pushed(lag, now, new, max)[i] = lag[k]
                       /\ Len(Pushed(lag, now, new, max)) - i = Len(lag) - k + 1
<1> DEFINE P == Pushed(lag, now, new, max)
           Aged(i) == \E k \in DOMAIN lag : P[i] = lag[k] /\ Len(P) - i = Len(lag) - k + 1
<1>1. CASE new = now
  BY <1>1 DEF Pushed
<1>2. CASE new # now /\ Len(lag) < max
  <2>1. P = Append(lag, now) /\ Len(P) = Len(lag) + 1
    BY <1>2 DEF Pushed
  <2>2. ASSUME NEW i \in DOMAIN P PROVE (P[i] = now /\ i = Len(P)) \/ Aged(i)
    <3>1. i \in 1..(Len(lag) + 1)
      BY <2>1
    <3>2. CASE i = Len(lag) + 1
      BY <2>1, <3>2
    <3>3. CASE i # Len(lag) + 1
      <4>1. i \in DOMAIN lag /\ P[i] = lag[i] /\ Len(P) - i = Len(lag) - i + 1
        BY <2>1, <3>1, <3>3
      <4> QED
        BY <4>1
    <3> QED
      BY <3>2, <3>3
  <2> QED
    BY <2>2
<1>3. CASE new # now /\ ~(Len(lag) < max) /\ max = 0
  <2>1. P = <<>>
    BY <1>3 DEF Pushed
  <2> QED
    BY <2>1
<1>4. CASE new # now /\ ~(Len(lag) < max) /\ max # 0
  <2>1. P = Append(Tail(lag), now)
    BY <1>4 DEF Pushed
  <2>2. lag # <<>> /\ Len(Tail(lag)) = Len(lag) - 1 /\ Tail(lag) \in Seq(S)
    BY <1>4
  <2>3. Len(P) = Len(lag)
    BY <2>1, <2>2
  <2>4. ASSUME NEW i \in DOMAIN P PROVE (P[i] = now /\ i = Len(P)) \/ Aged(i)
    <3>1. i \in 1..Len(lag)
      BY <2>1, <2>2
    <3>2. CASE i = Len(lag)
      BY <2>1, <2>2, <2>3, <3>2
    <3>3. CASE i < Len(lag)
      <4>1. P[i] = Tail(lag)[i] /\ i \in 1..Len(Tail(lag))
        BY <2>1, <2>2, <3>1, <3>3
      <4>2. P[i] = lag[i + 1] /\ i + 1 \in DOMAIN lag
        BY <4>1, <2>2, <3>1, <3>3
      <4>3. Len(P) - i = Len(lag) - (i + 1) + 1
        BY <2>3, <3>1
      <4> QED
        BY <4>2, <4>3
    <3> QED
      BY <3>1, <3>2, <3>3
  <2> QED
    BY <2>4
<1> QED
  BY <1>1, <1>2, <1>3, <1>4

\* Every version in the backlog after a write was there before it, or is the
\* one the write replaced.
LEMMA PushedVersions ==
    ASSUME NEW S, NEW now \in S, NEW new \in S, NEW lag \in Seq(S),
           NEW max \in Nat, Len(lag) <= max
    PROVE  \A i \in DOMAIN Pushed(lag, now, new, max) :
              \/ \E k \in DOMAIN lag : Pushed(lag, now, new, max)[i] = lag[k]
              \/ Pushed(lag, now, new, max)[i] = now
<1> DEFINE P == Pushed(lag, now, new, max)
<1>1. \/ P = lag
      \/ \A i \in DOMAIN P : P[i] = now \/ \E k \in DOMAIN lag : P[i] = lag[k]
  BY PushedAge
<1> HIDE DEF P
<1>2. \A i \in DOMAIN P : (\E k \in DOMAIN lag : P[i] = lag[k]) \/ P[i] = now
  BY <1>1
<1> QED
  BY <1>2 DEF P

\* What a read shows is in the backlog, or current.
LEMMA ViewVersion ==
    ASSUME NEW S, NEW now \in S, NEW lag \in Seq(S)
    PROVE  \/ lag = <<>> /\ View(now, lag) = now
           \/ lag # <<>> /\ 1 \in DOMAIN lag /\ View(now, lag) = lag[1]
BY DEF View
=============================================================================
