----------------------------- MODULE SigningProofs -----------------------------
(***************************************************************************)
(* For any number of stations, messages and faults: a nonce verifies one   *)
(* message at most, what a station was told to sign it does not send        *)
(* unsigned, and what is signed with a good nonce is not turned down.  The  *)
(* first needs to know who holds a nonce: the station that asked for it     *)
(* alone is sent it, and signs with it.                                     *)
(***************************************************************************)
EXTENDS Signing, TLAPS

LEMMA StationsFacts == GATEWAY_ADDRESS \in Stations /\ NoNonce \notin Nonces
  BY DEF Stations, GATEWAY_ADDRESS, NoNonce, Nonces

LEMMA MsgFacts ==
  ASSUME NEW kind \in Kinds, NEW from \in Stations, NEW to \in Stations, NEW arg \in Nat,
         NEW sig \in Nonces \cup {NoNonce}
  PROVE  /\ Msg(kind, from, to, arg, sig) \in MsgType
         /\ Msg(kind, from, to, arg, sig).kind = kind /\ Msg(kind, from, to, arg, sig).from = from
         /\ Msg(kind, from, to, arg, sig).to = to /\ Msg(kind, from, to, arg, sig).arg = arg
         /\ Msg(kind, from, to, arg, sig).sig = sig
  BY DEF Msg, MsgType

(* The messages that are unread.                                            *)
Queues == [Stations -> Seq(MsgType)]
Short(queues) == \A s \in Stations : Len(queues[s]) <= FifoSize
In(m, queue) == \E i \in 1..Len(queue) : queue[i] = m

LEMMA AppendFacts ==
  ASSUME NEW q \in Seq(MsgType), NEW m \in MsgType, NEW x, In(x, Append(q, m))
  PROVE  x = m \/ In(x, q)
  BY DEF In

LEMMA TailFacts ==
  ASSUME NEW q \in Seq(MsgType), q # <<>>
  PROVE  /\ Tail(q) \in Seq(MsgType) /\ Len(Tail(q)) <= Len(q)
         /\ Head(q) \in MsgType /\ In(Head(q), q)
         /\ \A x : In(x, Tail(q)) => In(x, q)
  <1>1. Len(q) \in Nat /\ Len(q) > 0 /\ Tail(q) \in Seq(MsgType) /\ Len(Tail(q)) = Len(q) - 1
    OBVIOUS
  <1>2. Head(q) \in MsgType /\ In(Head(q), q)
    BY <1>1 DEF In
  <1>3. ASSUME NEW x, In(x, Tail(q)) PROVE In(x, q)
    <2>1. PICK i \in 1..Len(Tail(q)) : Tail(q)[i] = x
      BY <1>3 DEF In
    <2>2. i + 1 \in 1..Len(q) /\ q[i + 1] = x
      BY <1>1, <2>1
    <2> QED  BY <2>2 DEF In
  <1> QED  BY <1>1, <1>2, <1>3

LEMMA UnreadFacts ==
  ASSUME air \in Queues, Short(air), NEW s \in Stations, air[s] # <<>>, FifoSize \in Nat
  PROVE  /\ Unread(s) \in Queues /\ Short(Unread(s))
         /\ Head(air[s]) \in MsgType /\ In(Head(air[s]), air[s])
         /\ \A t \in Stations : \A x : In(x, Unread(s)[t]) => In(x, air[t])
  <1>1. air[s] \in Seq(MsgType) /\ Tail(air[s]) \in Seq(MsgType) /\ Len(Tail(air[s])) <= Len(air[s])
    BY TailFacts DEF Queues
  <1>2. Unread(s) \in Queues
    BY <1>1 DEF Unread, Queues
  <1>3. \A t \in Stations : Unread(s)[t] = IF t = s THEN Tail(air[s]) ELSE air[t]
    BY DEF Unread, Queues
  <1>4. Short(Unread(s))
    <2>1. \A t \in Stations : Len(air[t]) \in Nat /\ Len(Tail(air[s])) \in Nat
      BY <1>1 DEF Queues
    <2>2. FifoSize \in Nat /\ \A t \in Stations : Len(air[t]) <= FifoSize
      BY DEF Short
    <2>3. ASSUME NEW t \in Stations PROVE Len(Unread(s)[t]) <= FifoSize
      <3>1. CASE t = s
        <4>1. Unread(s)[t] = Tail(air[s])
          BY <1>3, <3>1
        <4>2. Len(Tail(air[s])) \in Nat /\ Len(air[s]) \in Nat
          BY <1>1
        <4>3. Len(Tail(air[s])) <= Len(air[s]) /\ Len(air[s]) <= FifoSize
          BY <1>1, <2>2
        <4>4. Len(Tail(air[s])) <= FifoSize
          BY <2>2, <4>2, <4>3
        <4> QED  BY <4>1, <4>4
      <3>2. CASE t # s
        BY <1>3, <2>2, <3>2
      <3> QED  BY <3>1, <3>2
    <2> QED  BY <2>3 DEF Short
  <1>5. \A t \in Stations : \A x : In(x, Unread(s)[t]) => In(x, air[t])
    BY <1>1, <1>3, TailFacts
  <1> QED  BY <1>1, <1>2, <1>4, <1>5, TailFacts

(* What Transmit adds is the message, where it is for.                      *)
LEMMA TransmitFacts ==
  ASSUME NEW queues \in Queues, Short(queues), NEW m \in MsgType,
         faults \in 0..MaxFaults, Transmit(queues, m)
  PROVE  /\ air' \in Queues /\ Short(air') /\ faults' \in 0..MaxFaults
         /\ \A t \in Stations : \A x : In(x, air'[t]) => In(x, queues[t]) \/ (x = m /\ t = m.to)
  <1> USE SigningAssumption DEF SigningAssumption
  <1>1. CASE Arrives(queues, m)
    <2>1. m.to \in Stations /\ queues[m.to] \in Seq(MsgType) /\ Len(queues[m.to]) < FifoSize
      BY <1>1 DEF Arrives, MsgType, Queues
    <2>2. air' = [queues EXCEPT ![m.to] = Append(@, m)] /\ faults' = faults
      BY <1>1 DEF Arrives
    <2>3. Append(queues[m.to], m) \in Seq(MsgType) /\ Len(Append(queues[m.to], m)) = Len(queues[m.to]) + 1
      BY <2>1
    <2>4. \A t \in Stations : air'[t] = IF t = m.to THEN Append(queues[m.to], m) ELSE queues[t]
      BY <2>2 DEF Queues
    <2>5. air' \in Queues
      BY <2>1, <2>2, <2>3 DEF Queues
    <2>6. Short(air')
      <3>1. \A t \in Stations : Len(queues[t]) <= FifoSize
        BY DEF Short
      <3>2. FifoSize \in Nat /\ Len(queues[m.to]) \in Nat
        BY <2>1
      <3>3. ASSUME NEW t \in Stations PROVE Len(air'[t]) <= FifoSize
        <4>1. CASE t = m.to
          <5>1. air'[t] = Append(queues[m.to], m)
            BY <2>4, <4>1
          <5>2. Len(Append(queues[m.to], m)) <= FifoSize
            BY <2>1, <2>3, <3>2
          <5> QED  BY <5>1, <5>2
        <4>2. CASE t # m.to
          BY <2>4, <3>1, <4>2
        <4> QED  BY <4>1, <4>2
      <3> QED  BY <3>3 DEF Short
    <2>7. \A t \in Stations : \A x : In(x, air'[t]) => In(x, queues[t]) \/ (x = m /\ t = m.to)
      BY <2>1, <2>4, AppendFacts
    <2> QED  BY <2>2, <2>5, <2>6, <2>7
  <1>2. CASE GetsLost(queues, m)
    BY <1>2 DEF GetsLost
  <1> QED  BY <1>1, <1>2 DEF Transmit

-------------------------------------------------------------------------------
(* r[n] is the station that nonce n was made for.  Only this station is     *)
(* sent it by the one that made it, and what is signed with it comes from   *)
(* this station.                                                            *)
Fits(r, s, m) ==
  /\ m.to = s /\ m.from # s
  /\ m.sig # NoNonce => m.sig \in DOMAIN givers /\ r[m.sig] = m.from
  /\ m.kind = "I_GET_NONCE_RESPONSE" => m.arg \in DOMAIN givers /\ r[m.arg] = s /\ givers[m.arg] # s
AirInv(r) == \A s \in Stations : \A m : In(m, air[s]) => Fits(r, s, m)

CallInv ==
  \A s \in Stations : waits[s] # <<>> =>
    msgSign[s].kind = "C_SET" /\ msgSign[s].from = s /\ msgSign[s].to # s

(* A station has no nonce but those it made and those made for it.          *)
Holds(r, s, n) == n \in DOMAIN givers /\ (givers[n] = s \/ r[n] = s)
HolderInv(r) ==
  \A s \in Stations : /\ nonce[s] # NoNonce => Holds(r, s, nonce[s])
                      /\ lastRead[s] # NoNonce => Holds(r, s, lastRead[s])

(* What is accepted is not held any longer by the station that made it.     *)
AcceptedInv ==
  /\ \A n \in Nonces : accepted[n] # <<>> => n \in DOMAIN givers /\ accepted[n] = <<givers[n]>>
  /\ \A n \in DOMAIN givers :
       (verifying[givers[n]] /\ nonce[givers[n]] = n) \/ lastRead[givers[n]] = n => accepted[n] = <<>>

SignInv(r) == AirInv(r) /\ CallInv /\ HolderInv(r) /\ AcceptedInv

LEMMA GiversFacts ==
  ASSUME TypeOK
  PROVE  /\ DOMAIN givers = 1..Len(givers) /\ Len(givers) \in Nat /\ DOMAIN givers \subseteq Nonces
         /\ \A n \in DOMAIN givers : givers[n] \in Stations
         /\ \A s : LastGiven(s) \subseteq Nonces
  <1>1. givers \in Seq(Stations) /\ Len(givers) <= MaxNonces
    BY DEF TypeOK
  <1>2. DOMAIN givers = 1..Len(givers) /\ Len(givers) \in Nat /\ MaxNonces \in Nat
    BY <1>1, SigningAssumption DEF SigningAssumption
  <1>3. DOMAIN givers \subseteq Nonces
    BY <1>1, <1>2 DEF Nonces
  <1>4. \A n \in DOMAIN givers : givers[n] \in Stations
    BY <1>1, <1>2
  <1> QED  BY <1>2, <1>3, <1>4 DEF LastGiven

LEMMA Bounds == {FifoSize, MaxMessages, MaxNonces, MaxStarts, MaxFaults} \subseteq Nat
  BY SigningAssumption DEF SigningAssumption

LEMMA AirTyped ==
  ASSUME TypeOK
  PROVE  air \in Queues /\ Short(air) /\ faults \in 0..MaxFaults /\ FifoSize \in Nat
  BY Bounds DEF TypeOK, Queues, Short

(* What process() does first: the message is read.                          *)
LEMMA ReadFacts ==
  ASSUME TypeOK, NEW r, AirInv(r), NEW s \in Stations, NEW kind, Process(s, kind)
  PROVE  /\ Unread(s) \in Queues /\ Short(Unread(s))
         /\ \A t \in Stations : \A x : In(x, Unread(s)[t]) => In(x, air[t])
         /\ Head(air[s]) \in MsgType /\ Head(air[s]).kind = kind /\ Fits(r, s, Head(air[s]))
  <1>1. air[s] # <<>> /\ Head(air[s]).kind = kind
    BY DEF Process
  <1> QED  BY <1>1, AirTyped, UnreadFacts DEF AirInv

(* No message but the ones that fit is in the air after this.               *)
LEMMA AirKept ==
  ASSUME TypeOK, NEW r, AirInv(r), NEW queues \in Queues, Short(queues),
         \A t \in Stations : \A x : In(x, queues[t]) => In(x, air[t]),
         NEW m \in MsgType, Fits(r, m.to, m), givers' = givers, Transmit(queues, m)
  PROVE  air' \in Queues /\ Short(air') /\ faults' \in 0..MaxFaults /\ AirInv(r)'
  <1>1. /\ air' \in Queues /\ Short(air') /\ faults' \in 0..MaxFaults
        /\ \A t \in Stations : \A x : In(x, air'[t]) => In(x, queues[t]) \/ (x = m /\ t = m.to)
    BY AirTyped, TransmitFacts
  <1>2. ASSUME NEW t \in Stations, NEW x, In(x, air'[t]) PROVE Fits(r, t, x)'
    <2>1. Fits(r, t, x)
      BY <1>1, <1>2 DEF AirInv
    <2> QED  BY <2>1 DEF Fits
  <1> QED  BY <1>1, <1>2 DEF AirInv

LEMMA SendRouteKeeps ==
  ASSUME TypeOK, NEW r, AirInv(r), CallInv, NEW s \in Stations, NEW to \in Stations, to # s,
         NEW arg \in Messages, NEW queues \in Queues, Short(queues),
         \A t \in Stations : \A x : In(x, queues[t]) => In(x, air[t]),
         givers' = givers, sendRoute(s, Msg("C_SET", s, to, arg, NoNonce), queues)
  PROVE  /\ air' \in Queues /\ Short(air') /\ faults' \in 0..MaxFaults /\ AirInv(r)'
         /\ waits' \in [Stations -> Seq(MsgType)] /\ msgSign' \in [Stations -> MsgType]
         /\ unsigned' \subseteq Messages \X BOOLEAN /\ CallInv'
  <1> DEFINE m == Msg("C_SET", s, to, arg, NoNonce)
             request == Msg("I_GET_NONCE", s, to, 0, NoNonce)
  <1>1. m \in MsgType /\ m.kind = "C_SET" /\ m.from = s /\ m.to = to /\ m.arg = arg /\ m.sig = NoNonce
    <2>1. arg \in Nat /\ "C_SET" \in Kinds
      BY Bounds DEF Messages, Kinds
    <2> QED  BY <2>1, MsgFacts
  <1>2. /\ request \in MsgType /\ request.kind = "I_GET_NONCE" /\ request.from = s
        /\ request.to = to /\ request.sig = NoNonce
    BY MsgFacts DEF Kinds
  <1>3. Fits(r, m.to, m) /\ Fits(r, request.to, request)
    BY <1>1, <1>2 DEF Fits
  <1> HIDE DEF m, request
  <1>4. waits \in [Stations -> Seq(MsgType)] /\ msgSign \in [Stations -> MsgType]
        /\ unsigned \subseteq Messages \X BOOLEAN
    BY DEF TypeOK
  <1>5. CASE Transmit(queues, m) /\ UNCHANGED <<waits, msgSign>> /\
             unsigned' = unsigned \cup {<<m.arg, b>> : b \in {b \in BOOLEAN : <<s, m.to, b>> \in told}}
    <2>1. CallInv'
      BY <1>5 DEF CallInv
    <2>2. unsigned' \subseteq Messages \X BOOLEAN
      <3>1. {<<m.arg, b>> : b \in {b \in BOOLEAN : <<s, m.to, b>> \in told}} \subseteq Messages \X BOOLEAN
        <4>1. ASSUME NEW b \in BOOLEAN PROVE <<m.arg, b>> \in Messages \X BOOLEAN
          BY <1>1
        <4> QED  BY <4>1
      <3> QED  BY <1>4, <1>5, <3>1
    <2>3. air' \in Queues /\ Short(air') /\ faults' \in 0..MaxFaults /\ AirInv(r)'
      BY <1>1, <1>3, <1>5, AirKept
    <2> QED  BY <1>4, <1>5, <2>1, <2>2, <2>3
  <1>6. CASE Transmit(queues, request) /\ waits' = [waits EXCEPT ![s] = Append(@, m)]
             /\ msgSign' = [msgSign EXCEPT ![s] = m] /\ UNCHANGED unsigned
    <2>1. waits' \in [Stations -> Seq(MsgType)] /\ msgSign' \in [Stations -> MsgType]
      BY <1>1, <1>4, <1>6
    <2>2. ASSUME NEW t \in Stations, waits'[t] # <<>>
          PROVE  msgSign'[t].kind = "C_SET" /\ msgSign'[t].from = t /\ msgSign'[t].to # t
      <3>1. CASE t = s
        BY <1>1, <1>4, <1>6, <3>1
      <3>2. CASE t # s
        BY <1>4, <1>6, <2>2, <3>2 DEF CallInv
      <3> QED  BY <3>1, <3>2
    <2>3. CallInv'
      BY <2>2 DEF CallInv
    <2> QED  BY <1>2, <1>3, <1>4, <1>6, <2>1, <2>3, AirKept
  <1>7. CASE GetsLost(queues, request) /\ UNCHANGED <<waits, msgSign, unsigned>>
    <2>1. Transmit(queues, request)
      BY <1>7 DEF Transmit
    <2>2. CallInv'
      BY <1>7 DEF CallInv
    <2> QED  BY <1>2, <1>3, <1>4, <1>7, <2>1, <2>2, AirKept
  <1> QED  BY <1>1, <1>5, <1>6, <1>7 DEF sendRoute, m, request

-------------------------------------------------------------------------------
(* The steps *)

LEMMA SendKeeps ==
  ASSUME TypeOK, NEW r \in [Nonces -> Stations], SignInv(r),
         NEW s \in Stations, NEW to \in Stations, Send(s, to)
  PROVE  TypeOK' /\ SignInv(r)'
  <1>1. sent + 1 \in Messages /\ sent' \in 0..MaxMessages
    BY Bounds DEF Send, Messages, TypeOK
  <1>2. /\ air' \in Queues /\ Short(air') /\ faults' \in 0..MaxFaults /\ AirInv(r)'
        /\ waits' \in [Stations -> Seq(MsgType)] /\ msgSign' \in [Stations -> MsgType]
        /\ unsigned' \subseteq Messages \X BOOLEAN /\ CallInv'
    BY <1>1, AirTyped, SendRouteKeeps DEF Send, SignInv
  <1>3. UNCHANGED <<power, tables, signer, lastRead, givers, accepted, rejected>>
    BY DEF Send
  <1>4. TypeOK'
    BY <1>1, <1>2, <1>3 DEF TypeOK, power, tables, signer, Queues, Short
  <1>5. HolderInv(r)' /\ AcceptedInv'
    BY <1>3 DEF SignInv, HolderInv, Holds, AcceptedInv, signer
  <1> QED  BY <1>2, <1>4, <1>5 DEF SignInv

LEMMA TimerKeeps ==
  ASSUME TypeOK, NEW r \in [Nonces -> Stations], SignInv(r), NEW s \in Stations, checkTimer(s)
  PROVE  TypeOK' /\ SignInv(r)'
  <1>1. TypeOK'
    <2>1. /\ nonce' \in [Stations -> Nonces \cup {NoNonce}] /\ verifying' \in [Stations -> BOOLEAN]
          /\ spoilt' \subseteq Nonces
      BY GiversFacts DEF TypeOK, checkTimer
    <2>2. faults' \in 0..MaxFaults
      BY Bounds DEF TypeOK, checkTimer
    <2> QED  BY <2>1, <2>2 DEF TypeOK, checkTimer, power, tables, calls
  <1>2. AirInv(r)' /\ CallInv'
    BY DEF SignInv, AirInv, Fits, CallInv, checkTimer, calls
  <1>3. HolderInv(r)' /\ AcceptedInv'
    BY GiversFacts DEF SignInv, HolderInv, Holds, AcceptedInv, checkTimer, TypeOK
  <1> QED  BY <1>1, <1>2, <1>3 DEF SignInv

LEMMA IgnoreNonceKeeps ==
  ASSUME TypeOK, NEW r \in [Nonces -> Stations], SignInv(r), NEW s \in Stations, IgnoreNonce(s)
  PROVE  TypeOK' /\ SignInv(r)'
  <1> DEFINE m == Head(air[s])
  <1>1. /\ Unread(s) \in Queues /\ Short(Unread(s))
        /\ \A t \in Stations : \A x : In(x, Unread(s)[t]) => In(x, air[t])
        /\ m \in MsgType /\ m.kind = "I_GET_NONCE_RESPONSE" /\ Fits(r, s, m)
    BY ReadFacts DEF IgnoreNonce, SignInv
  <1>2. /\ air' = Unread(s) /\ lastRead' = [lastRead EXCEPT ![s] = m.arg]
        /\ UNCHANGED <<power, tables, signer, calls, givers, faults, accepted, rejected>>
    BY DEF IgnoreNonce
  <1>3. m.arg \in DOMAIN givers /\ r[m.arg] = s /\ givers[m.arg] # s
    BY <1>1 DEF Fits
  <1> HIDE DEF m
  <1>4. TypeOK'
    BY <1>1, <1>2, <1>3, GiversFacts DEF TypeOK, Queues, Short, power, tables, signer, calls
  <1>5. AirInv(r)' /\ CallInv'
    <2>1. ASSUME NEW t \in Stations, NEW x, In(x, air'[t]) PROVE Fits(r, t, x)'
      BY <1>1, <1>2, <2>1 DEF SignInv, AirInv, Fits
    <2>2. CallInv'
      BY <1>2 DEF SignInv, CallInv, calls
    <2> QED  BY <2>1, <2>2 DEF AirInv
  <1>6. HolderInv(r)'
    BY <1>2, <1>3 DEF SignInv, HolderInv, Holds, signer, TypeOK
  <1>7. AcceptedInv'
    BY <1>2, <1>3, GiversFacts DEF SignInv, AcceptedInv, signer, TypeOK
  <1> QED  BY <1>4, <1>5, <1>6, <1>7 DEF SignInv

LEMMA RejectUnsignedKeeps ==
  ASSUME TypeOK, NEW r \in [Nonces -> Stations], SignInv(r), NEW s \in Stations, RejectUnsigned(s)
  PROVE  TypeOK' /\ SignInv(r)'
  <1>1. /\ Unread(s) \in Queues /\ Short(Unread(s))
        /\ \A t \in Stations : \A x : In(x, Unread(s)[t]) => In(x, air[t])
    BY ReadFacts DEF RejectUnsigned, SignInv
  <1>2. /\ air' = Unread(s) /\ lastRead' = [lastRead EXCEPT ![s] = NoNonce]
        /\ UNCHANGED <<power, tables, signer, calls, givers, faults, accepted, rejected>>
    BY DEF RejectUnsigned
  <1>3. TypeOK'
    BY <1>1, <1>2 DEF TypeOK, Queues, Short, power, tables, signer, calls
  <1>4. AirInv(r)' /\ CallInv'
    BY <1>1, <1>2 DEF SignInv, AirInv, Fits, CallInv, calls
  <1>5. HolderInv(r)' /\ AcceptedInv'
    BY <1>2, GiversFacts, StationsFacts DEF SignInv, HolderInv, Holds, AcceptedInv, signer, TypeOK
  <1> QED  BY <1>3, <1>4, <1>5 DEF SignInv

LEMMA RejectSignedKeeps ==
  ASSUME TypeOK, NEW r \in [Nonces -> Stations], SignInv(r), NEW s \in Stations, RejectSigned(s)
  PROVE  TypeOK' /\ SignInv(r)'
  <1> DEFINE m == Head(air[s])
  <1>1. /\ Unread(s) \in Queues /\ Short(Unread(s))
        /\ \A t \in Stations : \A x : In(x, Unread(s)[t]) => In(x, air[t])
        /\ m \in MsgType /\ Fits(r, s, m)
    BY ReadFacts DEF RejectSigned, SignInv
  <1>2. /\ air' = Unread(s) /\ lastRead' = [lastRead EXCEPT ![s] = NoNonce]
        /\ rejected' \in {rejected, rejected \cup {m.sig}} /\ m.sig # NoNonce /\ SessionEnds(s)
        /\ UNCHANGED <<power, tables, calls, givers, faults, accepted>>
    BY DEF RejectSigned
  <1>3. m.sig \in Nonces
    BY <1>1, <1>2 DEF MsgType
  <1> HIDE DEF m
  <1>4. TypeOK'
    BY <1>1, <1>2, <1>3, GiversFacts DEF TypeOK, SessionEnds, Queues, Short, power, tables, calls
  <1>5. AirInv(r)' /\ CallInv'
    BY <1>1, <1>2 DEF SignInv, AirInv, Fits, CallInv, calls
  <1>6. HolderInv(r)'
    BY <1>2 DEF SignInv, HolderInv, Holds, SessionEnds, TypeOK
  <1>7. AcceptedInv'
    BY <1>2, GiversFacts, StationsFacts DEF SignInv, AcceptedInv, SessionEnds, TypeOK
  <1> QED  BY <1>4, <1>5, <1>6, <1>7 DEF SignInv

(* A nonce with which a message is accepted was not used before, and is     *)
(* given up.                                                                *)
LEMMA VerifiedKeeps ==
  ASSUME TypeOK, NEW r \in [Nonces -> Stations], SignInv(r), NEW s \in Stations,
         NEW m \in MsgType, Fits(r, s, m), Verified(s, m),
         lastRead' = [lastRead EXCEPT ![s] = NoNonce], UNCHANGED givers
  PROVE  /\ nonce' \in [Stations -> Nonces \cup {NoNonce}] /\ verifying' \in [Stations -> BOOLEAN]
         /\ spoilt' \subseteq Nonces /\ accepted' \in [Nonces -> Seq(Stations)]
         /\ lastRead' \in [Stations -> Nonces \cup {NoNonce}]
         /\ HolderInv(r)' /\ AcceptedInv'
  <1>1. /\ nonce \in [Stations -> Nonces \cup {NoNonce}] /\ verifying \in [Stations -> BOOLEAN]
        /\ lastRead \in [Stations -> Nonces \cup {NoNonce}]
        /\ spoilt \subseteq Nonces /\ accepted \in [Nonces -> Seq(Stations)]
    BY DEF TypeOK
  <1>2. HolderInv(r) /\ AcceptedInv
    BY DEF SignInv
  <1>3. CASE ~NeedsSignature(s)
    <2>1. UNCHANGED <<signer, accepted>>
      BY <1>3 DEF Verified
    <2>2. HolderInv(r)'
      BY <1>1, <1>2, <2>1 DEF HolderInv, Holds, signer
    <2>3. AcceptedInv'
      BY <1>1, <1>2, <2>1, GiversFacts, StationsFacts DEF AcceptedInv, signer
    <2> QED  BY <1>1, <2>1, <2>2, <2>3 DEF signer
  <1>4. CASE NeedsSignature(s)
    <2>1. /\ m.sig # NoNonce /\ verifying[s] /\ m.sig = nonce[s] /\ SessionEnds(s)
          /\ accepted' = [accepted EXCEPT ![m.sig] = IF Len(@) < 2 THEN Append(@, s) ELSE @]
      BY <1>4 DEF Verified, verifyMsg
    <2>2. m.sig \in DOMAIN givers /\ m.sig \in Nonces /\ givers[m.sig] = s
      <3>1. m.sig \in DOMAIN givers /\ r[m.sig] = m.from /\ m.from # s
        BY <2>1 DEF Fits
      <3>2. Holds(r, s, m.sig)
        BY <1>2, <2>1 DEF HolderInv
      <3> QED  BY <3>1, <3>2, GiversFacts DEF Holds
    <2>3. accepted[m.sig] = <<>>
      BY <1>2, <2>1, <2>2 DEF AcceptedInv
    <2>4. accepted' = [accepted EXCEPT ![m.sig] = <<s>>] /\ <<s>> \in Seq(Stations)
      <3>1. Len(accepted[m.sig]) < 2 /\ Append(accepted[m.sig], s) = <<s>>
        BY <2>3
      <3> QED  BY <2>1, <3>1
    <2>5. /\ nonce' = [nonce EXCEPT ![s] = NoNonce] /\ verifying' = [verifying EXCEPT ![s] = FALSE]
          /\ spoilt' \subseteq Nonces
      BY <1>1, <2>1, GiversFacts DEF SessionEnds
    <2>6. HolderInv(r)'
      BY <1>1, <1>2, <2>5 DEF HolderInv, Holds
    <2>7. AcceptedInv'
      <3>1. ASSUME NEW n \in Nonces, accepted'[n] # <<>>
            PROVE  n \in DOMAIN givers /\ accepted'[n] = <<givers[n]>>
        BY <1>1, <1>2, <2>2, <2>4, <3>1 DEF AcceptedInv
      <3>2. ASSUME NEW n \in DOMAIN givers,
                   (verifying'[givers[n]] /\ nonce'[givers[n]] = n) \/ lastRead'[givers[n]] = n
            PROVE  accepted'[n] = <<>>
        <4>1. givers[n] \in Stations /\ n \in Nonces /\ n # NoNonce
          BY GiversFacts, StationsFacts
        <4>2. givers[n] # s
          BY <1>1, <2>5, <3>2, <4>1
        <4> QED  BY <1>1, <1>2, <2>2, <2>4, <2>5, <3>2, <4>1, <4>2 DEF AcceptedInv
      <3> QED  BY <3>1, <3>2 DEF AcceptedInv
    <2> QED  BY <1>1, <2>2, <2>4, <2>5, <2>6, <2>7
  <1> QED  BY <1>3, <1>4

LEMMA IncomingMessageKeeps ==
  ASSUME TypeOK, NEW r \in [Nonces -> Stations], SignInv(r), NEW s \in Stations, IncomingMessage(s)
  PROVE  TypeOK' /\ SignInv(r)'
  <1> DEFINE m == Head(air[s])
  <1>1. /\ Unread(s) \in Queues /\ Short(Unread(s))
        /\ \A t \in Stations : \A x : In(x, Unread(s)[t]) => In(x, air[t])
        /\ m \in MsgType /\ Fits(r, s, m)
    BY ReadFacts DEF IncomingMessage, SignInv
  <1>2. /\ Verified(s, m) /\ lastRead' = [lastRead EXCEPT ![s] = NoNonce]
        /\ UNCHANGED <<power, tables, givers, rejected>>
    BY DEF IncomingMessage
  <1>3. /\ nonce' \in [Stations -> Nonces \cup {NoNonce}] /\ verifying' \in [Stations -> BOOLEAN]
        /\ spoilt' \subseteq Nonces /\ accepted' \in [Nonces -> Seq(Stations)]
        /\ lastRead' \in [Stations -> Nonces \cup {NoNonce}]
        /\ HolderInv(r)' /\ AcceptedInv'
    BY <1>1, <1>2, VerifiedKeeps
  <1>4. /\ air' \in Queues /\ Short(air') /\ faults' \in 0..MaxFaults /\ AirInv(r)'
        /\ waits' \in [Stations -> Seq(MsgType)] /\ msgSign' \in [Stations -> MsgType]
        /\ unsigned' \subseteq Messages \X BOOLEAN /\ CallInv' /\ sent' \in 0..MaxMessages
    <2>1. CASE air' = Unread(s) /\ faults' = faults /\ UNCHANGED calls
      <3>1. ASSUME NEW t \in Stations, NEW x, In(x, air'[t]) PROVE Fits(r, t, x)'
        BY <1>1, <1>2, <2>1, <3>1 DEF SignInv, AirInv, Fits
      <3>2. CallInv'
        BY <2>1 DEF SignInv, CallInv, calls
      <3> QED  BY <1>1, <2>1, <3>1, <3>2 DEF AirInv, TypeOK, calls
    <2>2. CASE \E to \in Stations \ {s} :
                 /\ sent < MaxMessages /\ sent' = sent + 1
                 /\ sendRoute(s, Msg("C_SET", s, to, sent + 1, NoNonce), Unread(s))
      <3>1. PICK to \in Stations \ {s} :
                 /\ sent < MaxMessages /\ sent' = sent + 1
                 /\ sendRoute(s, Msg("C_SET", s, to, sent + 1, NoNonce), Unread(s))
        BY <2>2
      <3>2. sent + 1 \in Messages /\ sent' \in 0..MaxMessages
        BY <3>1, Bounds DEF Messages, TypeOK
      <3> QED  BY <1>1, <1>2, <3>1, <3>2, SendRouteKeeps DEF SignInv
    <2> QED  BY <2>1, <2>2 DEF IncomingMessage
  <1>5. TypeOK'
    BY <1>2, <1>3, <1>4 DEF TypeOK, power, tables, Queues, Short
  <1> QED  BY <1>3, <1>4, <1>5 DEF SignInv

LEMMA RequestSigningKeeps ==
  ASSUME TypeOK, NEW r \in [Nonces -> Stations], SignInv(r), NEW s \in Stations, RequestSigning(s)
  PROVE  TypeOK' /\ SignInv(r)'
  <1> DEFINE m == Head(air[s])
             b == m.arg = 1
             reply == Msg("I_REQUEST_SIGNING", s, m.from, Flag(s \in Require /\ b), NoNonce)
  <1>1. /\ Unread(s) \in Queues /\ Short(Unread(s))
        /\ \A t \in Stations : \A x : In(x, Unread(s)[t]) => In(x, air[t])
        /\ m \in MsgType /\ Fits(r, s, m) /\ m.from \in Stations /\ m.from # s /\ b \in BOOLEAN
    BY ReadFacts DEF RequestSigning, SignInv, MsgType, Fits
  <1>2. /\ reply \in MsgType /\ reply.kind = "I_REQUEST_SIGNING" /\ reply.from = s
        /\ reply.to = m.from /\ reply.sig = NoNonce
    <2>1. Flag(s \in Require /\ b) \in Nat
      BY DEF Flag
    <2> QED  BY <1>1, <2>1, MsgFacts DEF Kinds
  <1>3. /\ doSign' = [doSign EXCEPT ![s] = Notes(s, m.from, b)]
        /\ savedSign' = [savedSign EXCEPT ![s] = doSign'[s]]
        /\ told' = {t \in told : t[1] # s \/ t[2] # m.from} \cup {<<s, m.from, b>>}
        /\ lastRead' = [lastRead EXCEPT ![s] = NoNonce]
        /\ Transmit(Unread(s), reply) \/ (air' = Unread(s) /\ faults' = faults)
        /\ UNCHANGED <<power, signer, calls, givers, accepted, rejected>>
    BY DEF RequestSigning
  <1>4. Fits(r, reply.to, reply)
    BY <1>1, <1>2 DEF Fits
  <1> HIDE DEF m, reply, b
  <1>5. air' \in Queues /\ Short(air') /\ faults' \in 0..MaxFaults /\ AirInv(r)'
    <2>1. CASE Transmit(Unread(s), reply)
      BY <1>1, <1>2, <1>3, <1>4, <2>1, AirKept DEF SignInv
    <2>2. CASE air' = Unread(s) /\ faults' = faults
      <3>1. ASSUME NEW t \in Stations, NEW x, In(x, air'[t]) PROVE Fits(r, t, x)'
        BY <1>1, <1>3, <2>2, <3>1 DEF SignInv, AirInv, Fits
      <3> QED  BY <1>1, <2>2, <3>1 DEF AirInv, TypeOK
    <2> QED  BY <1>3, <2>1, <2>2
  <1>6. TypeOK'
    <2>1. doSign' \in [Stations -> SUBSET Stations] /\ savedSign' \in [Stations -> SUBSET Stations]
      <3>1. Notes(s, m.from, b) \subseteq Stations
        BY <1>1 DEF Notes, TypeOK
      <3> QED  BY <1>3, <3>1 DEF TypeOK
    <2>2. told' \subseteq Stations \X Stations \X BOOLEAN
      BY <1>1, <1>3 DEF TypeOK
    <2> QED  BY <1>3, <1>5, <2>1, <2>2 DEF TypeOK, power, signer, calls, Queues, Short
  <1>7. CallInv'
    BY <1>3 DEF SignInv, CallInv, calls
  <1>8. HolderInv(r)' /\ AcceptedInv'
    BY <1>3, GiversFacts, StationsFacts DEF SignInv, HolderInv, Holds, AcceptedInv, signer, TypeOK
  <1> QED  BY <1>5, <1>6, <1>7, <1>8 DEF SignInv

LEMMA CopiesFacts ==
  ASSUME NEW q \in Seq(MsgType), NEW m \in MsgType, NEW k \in Nat
  PROVE  /\ q \o [i \in 1..k |-> m] \in Seq(MsgType) /\ Len(q \o [i \in 1..k |-> m]) = Len(q) + k
         /\ \A x : In(x, q \o [i \in 1..k |-> m]) => In(x, q) \/ x = m
  <1> DEFINE c == [i \in 1..k |-> m]
  <1>1. c \in Seq(MsgType) /\ Len(c) = k /\ \A i \in 1..k : c[i] = m
    OBVIOUS
  <1> HIDE DEF c
  <1>2. q \o c \in Seq(MsgType) /\ Len(q \o c) = Len(q) + k /\ Len(q) \in Nat
    BY <1>1
  <1>3. ASSUME NEW x, In(x, q \o c) PROVE In(x, q) \/ x = m
    <2>1. PICK i \in 1..Len(q \o c) : (q \o c)[i] = x
      BY <1>3 DEF In
    <2>2. CASE i <= Len(q)
      <3>1. i \in 1..Len(q) /\ q[i] = x
        BY <1>1, <1>2, <2>1, <2>2
      <3> QED  BY <3>1 DEF In
    <2>3. CASE i > Len(q)
      <3>1. i - Len(q) \in 1..k
        BY <1>2, <2>1, <2>3
      <3>2. (q \o c)[i] = c[i - Len(q)]
        BY <1>1, <1>2, <2>1, <2>3
      <3> QED  BY <1>1, <2>1, <3>1, <3>2
    <2> QED  BY <1>2, <2>1, <2>2, <2>3
  <1> QED  BY <1>2, <1>3 DEF c

LEMMA SignsFacts ==
  ASSUME TypeOK, NEW s \in Stations, NEW n \in Nonces, Signs(s, n)
  PROVE  /\ nonce' \in [Stations -> Nonces \cup {NoNonce}] /\ spoilt' \subseteq Nonces
         /\ \A t \in Stations : nonce'[t] # NoNonce => nonce'[t] = nonce[t] \/ (t = s /\ nonce'[t] = n)
         /\ verifying' = verifying
  BY GiversFacts DEF Signs, TypeOK

LEMMA SignAndSendKeeps ==
  ASSUME TypeOK, NEW r \in [Nonces -> Stations], SignInv(r), NEW s \in Stations, SignAndSend(s)
  PROVE  TypeOK' /\ SignInv(r)'
  <1> DEFINE n == Head(air[s]).arg
             m == [msgSign[s] EXCEPT !.sig = n]
  <1>1. /\ Unread(s) \in Queues /\ Short(Unread(s))
        /\ \A t \in Stations : \A x : In(x, Unread(s)[t]) => In(x, air[t])
        /\ Head(air[s]).kind = "I_GET_NONCE_RESPONSE" /\ Fits(r, s, Head(air[s]))
    BY ReadFacts DEF SignAndSend, SignInv
  <1>2. n \in DOMAIN givers /\ n \in Nonces /\ r[n] = s /\ givers[n] # s
    BY <1>1, GiversFacts DEF Fits
  <1>3. /\ m \in MsgType /\ m.kind = "C_SET" /\ m.from = s /\ m.to \in Stations /\ m.to # s /\ m.sig = n
    <2>1. msgSign[s] \in MsgType /\ msgSign[s].kind = "C_SET" /\ msgSign[s].from = s /\ msgSign[s].to # s
      BY DEF SignAndSend, SignInv, CallInv, TypeOK
    <2> QED  BY <1>2, <2>1 DEF MsgType
  <1>4. /\ Signs(s, n) /\ waits' = [waits EXCEPT ![s] = <<>>] /\ lastRead' = [lastRead EXCEPT ![s] = n]
        /\ UNCHANGED <<power, tables, msgSign, sent, unsigned, givers, accepted, rejected>>
        /\ faults' = faults \/ (faults < MaxFaults /\ faults' = faults + 1)
    BY DEF SignAndSend
  <1>5. PICK copies \in Nat :
          /\ Len(Unread(s)[m.to]) + copies <= FifoSize
          /\ air' = [Unread(s) EXCEPT ![m.to] = @ \o [i \in 1..copies |-> m]]
    <2>1. \A k \in Nat : 0..k \subseteq Nat
      OBVIOUS
    <2>2. Len(waits[s]) \in Nat
      BY DEF TypeOK
    <2> QED  BY <2>1, <2>2 DEF SignAndSend
  <1>6. Fits(r, m.to, m)
    BY <1>2, <1>3 DEF Fits
  <1> HIDE DEF n, m
  <1>7. air' \in Queues /\ Short(air') /\ AirInv(r)'
    <2> DEFINE more == Unread(s)[m.to] \o [i \in 1..copies |-> m]
    <2>1. /\ more \in Seq(MsgType) /\ Len(more) = Len(Unread(s)[m.to]) + copies
          /\ \A x : In(x, more) => In(x, Unread(s)[m.to]) \/ x = m
      BY <1>1, <1>3, CopiesFacts DEF Queues
    <2>2. air' = [Unread(s) EXCEPT ![m.to] = more]
      BY <1>5
    <2> HIDE DEF more
    <2>3. air' \in Queues
      BY <1>1, <2>1, <2>2 DEF Queues
    <2>4. \A t \in Stations : air'[t] = IF t = m.to THEN more ELSE Unread(s)[t]
      BY <1>1, <2>2 DEF Queues
    <2>5. Short(air')
      BY <1>1, <1>5, <2>1, <2>4 DEF Short
    <2>6. ASSUME NEW t \in Stations, NEW x, In(x, air'[t]) PROVE Fits(r, t, x)'
      <3>1. In(x, air[t]) \/ (x = m /\ t = m.to)
        BY <1>1, <2>1, <2>4, <2>6
      <3>2. Fits(r, t, x)
        BY <1>6, <3>1 DEF SignInv, AirInv
      <3> QED  BY <1>4, <3>2 DEF Fits
    <2> QED  BY <2>3, <2>5, <2>6 DEF AirInv
  <1>signs. /\ nonce' \in [Stations -> Nonces \cup {NoNonce}] /\ spoilt' \subseteq Nonces
            /\ \A t \in Stations : nonce'[t] # NoNonce => nonce'[t] = nonce[t] \/ (t = s /\ nonce'[t] = n)
            /\ verifying' = verifying
    BY <1>2, <1>4, SignsFacts
  <1>8. TypeOK'
    <2>1. faults' \in 0..MaxFaults
      BY <1>4, Bounds DEF TypeOK
    <2>2. lastRead' \in [Stations -> Nonces \cup {NoNonce}] /\ waits' \in [Stations -> Seq(MsgType)]
      BY <1>2, <1>4 DEF TypeOK
    <2> QED  BY <1>4, <1>7, <1>signs, <2>1, <2>2 DEF TypeOK, power, tables, Queues, Short
  <1>9. CallInv'
    BY <1>4 DEF SignInv, CallInv, TypeOK
  <1>10. HolderInv(r)'
    BY <1>2, <1>4, <1>signs DEF SignInv, HolderInv, Holds, TypeOK
  <1>11. AcceptedInv'
    <2>1. ASSUME NEW k \in DOMAIN givers,
                 (verifying'[givers[k]] /\ nonce'[givers[k]] = k) \/ lastRead'[givers[k]] = k
          PROVE  accepted[k] = <<>>
      <3>1. givers[k] \in Stations /\ k # NoNonce /\ lastRead \in [Stations -> Nonces \cup {NoNonce}]
        BY GiversFacts, StationsFacts DEF TypeOK
      <3>2. (verifying[givers[k]] /\ nonce[givers[k]] = k) \/ lastRead[givers[k]] = k
        BY <1>2, <1>4, <1>signs, <2>1, <3>1
      <3> QED  BY <3>2 DEF SignInv, AcceptedInv
    <2> QED  BY <1>4, <2>1 DEF SignInv, AcceptedInv
  <1> QED  BY <1>7, <1>8, <1>9, <1>10, <1>11 DEF SignInv

LEMMA NonceTimeoutKeeps ==
  ASSUME TypeOK, NEW r \in [Nonces -> Stations], SignInv(r), NEW s \in Stations, NonceTimeout(s)
  PROVE  TypeOK' /\ SignInv(r)'
  <1>1. /\ faults' \in 0..MaxFaults /\ waits' = [waits EXCEPT ![s] = <<>>]
        /\ (lastRead[s] # NoNonce /\ Signs(s, lastRead[s])) \/ UNCHANGED signer
        /\ UNCHANGED <<power, tables, msgSign, sent, unsigned, lastRead, air, givers, accepted, rejected>>
    BY Bounds DEF NonceTimeout, TypeOK
  <1>2. AirInv(r)' /\ CallInv'
    BY <1>1 DEF SignInv, AirInv, Fits, CallInv, TypeOK
  <1>3. CASE lastRead[s] # NoNonce /\ Signs(s, lastRead[s])
    <2>1. lastRead[s] \in Nonces
      BY <1>3 DEF TypeOK
    <2>signs. /\ nonce' \in [Stations -> Nonces \cup {NoNonce}] /\ spoilt' \subseteq Nonces
              /\ \A t \in Stations : nonce'[t] # NoNonce => nonce'[t] = nonce[t] \/ (t = s /\ nonce'[t] = lastRead[s])
              /\ verifying' = verifying
      BY <1>3, <2>1, SignsFacts
    <2>2. TypeOK'
      <3>1. waits' \in [Stations -> Seq(MsgType)]
        BY <1>1 DEF TypeOK
      <3> QED  BY <1>1, <2>signs, <3>1 DEF TypeOK, power, tables
    <2>3. HolderInv(r)'
      BY <1>1, <1>3, <2>signs DEF SignInv, HolderInv, Holds
    <2>4. AcceptedInv'
      BY <1>1, <1>3, <2>signs, GiversFacts, StationsFacts DEF SignInv, AcceptedInv
    <2> QED  BY <1>2, <2>2, <2>3, <2>4 DEF SignInv
  <1>4. CASE UNCHANGED signer
    <2>1. TypeOK'
      BY <1>1, <1>4 DEF TypeOK, power, tables, signer
    <2>2. HolderInv(r)' /\ AcceptedInv'
      BY <1>1, <1>4 DEF SignInv, HolderInv, Holds, AcceptedInv, signer
    <2> QED  BY <1>2, <2>1, <2>2 DEF SignInv
  <1> QED  BY <1>1, <1>3, <1>4

LEMMA ReceivedTwiceKeeps ==
  ASSUME TypeOK, NEW r \in [Nonces -> Stations], SignInv(r), NEW s \in Stations, ReceivedTwice(s)
  PROVE  TypeOK' /\ SignInv(r)'
  <1>1. /\ air[s] # <<>> /\ Len(air[s]) < FifoSize /\ faults' \in 0..MaxFaults
        /\ air' = [air EXCEPT ![s] = Append(@, Head(@))]
        /\ UNCHANGED <<power, tables, signer, calls, lastRead, givers, accepted, rejected>>
    BY Bounds DEF ReceivedTwice, TypeOK
  <1>2. air \in Queues /\ Short(air) /\ FifoSize \in Nat
    BY AirTyped
  <1> DEFINE m == Head(air[s])
  <1>3. m \in MsgType /\ In(m, air[s]) /\ air[s] \in Seq(MsgType)
    BY <1>1, <1>2, TailFacts DEF Queues
  <1> HIDE DEF m
  <1>4. /\ Append(air[s], m) \in Seq(MsgType) /\ Len(Append(air[s], m)) = Len(air[s]) + 1
        /\ air' = [air EXCEPT ![s] = Append(air[s], m)]
    BY <1>1, <1>3 DEF m
  <1>5. \A t \in Stations : air'[t] = IF t = s THEN Append(air[s], m) ELSE air[t]
    BY <1>2, <1>4 DEF Queues
  <1>6. air' \in Queues
    BY <1>2, <1>4 DEF Queues
  <1>7. ASSUME NEW t \in Stations PROVE Len(air'[t]) <= FifoSize
    <2>1. CASE t = s
      <3>1. Len(air[s]) \in Nat
        BY <1>3
      <3>2. air'[t] = Append(air[s], m)
        BY <1>5, <2>1
      <3>3. Len(air'[t]) = Len(air[s]) + 1
        BY <1>4, <3>2
      <3> QED  BY <1>1, <1>2, <3>1, <3>3
    <2>2. CASE t # s
      BY <1>2, <1>5, <2>2 DEF Short
    <2> QED  BY <2>1, <2>2
  <1>8. AirInv(r)'
    <2>1. ASSUME NEW t \in Stations, NEW x, In(x, air'[t]) PROVE Fits(r, t, x)'
      <3>1. In(x, air[t])
        BY <1>3, <1>5, <2>1, AppendFacts
      <3>2. Fits(r, t, x)
        BY <3>1 DEF SignInv, AirInv
      <3> QED  BY <1>1, <3>2 DEF Fits
    <2> QED  BY <2>1 DEF AirInv
  <1>9. TypeOK'
    BY <1>1, <1>6, <1>7 DEF TypeOK, Queues, power, tables, signer, calls
  <1>10. CallInv' /\ HolderInv(r)' /\ AcceptedInv'
    BY <1>1 DEF SignInv, CallInv, HolderInv, Holds, AcceptedInv, signer, calls
  <1> QED  BY <1>8, <1>9, <1>10 DEF SignInv

LEMMA StartKeeps ==
  ASSUME TypeOK, NEW r \in [Nonces -> Stations], SignInv(r), NEW s \in Stations, Start(s)
  PROVE  TypeOK' /\ SignInv(r)'
  <1> DEFINE quiet == [air EXCEPT ![s] = <<>>]
             m == Msg("I_REQUEST_SIGNING", s, GATEWAY_ADDRESS, Flag(s \in Require), NoNonce)
  <1>1. /\ starts' \in 0..MaxStarts /\ running' = running \cup {s}
        /\ doSign' = [doSign EXCEPT ![s] = IF s = GATEWAY_ADDRESS THEN FreshTable ELSE savedSign[s]]
        /\ told' \subseteq told
        /\ nonce' = [nonce EXCEPT ![s] = NoNonce] /\ verifying' = [verifying EXCEPT ![s] = FALSE]
        /\ spoilt' = spoilt \cup LastGiven(s)
        /\ waits' = [waits EXCEPT ![s] = <<>>] /\ msgSign' = [msgSign EXCEPT ![s] = NoMsg]
        /\ lastRead' = [lastRead EXCEPT ![s] = NoNonce]
        /\ UNCHANGED <<savedSign, givers, sent, unsigned, accepted, rejected>>
    BY Bounds DEF Start, TypeOK
  <1>2. /\ quiet \in Queues /\ Short(quiet)
        /\ \A t \in Stations : \A x : In(x, quiet[t]) => In(x, air[t])
    <2>1. air \in Queues /\ Short(air) /\ FifoSize \in Nat
      BY AirTyped
    <2>2. \A t \in Stations : quiet[t] = IF t = s THEN <<>> ELSE air[t]
      BY <2>1 DEF Queues
    <2>3. quiet \in Queues
      BY <2>1 DEF Queues
    <2>4. Short(quiet)
      BY <2>1, <2>2 DEF Short
    <2>5. \A x : ~In(x, <<>>)
      BY DEF In
    <2> QED  BY <2>2, <2>3, <2>4, <2>5
  <1>3. s # GATEWAY_ADDRESS => Fits(r, m.to, m) /\ m \in MsgType
    <2>1. Flag(s \in Require) \in Nat
      BY DEF Flag
    <2>2. /\ m \in MsgType /\ m.kind = "I_REQUEST_SIGNING" /\ m.from = s
          /\ m.to = GATEWAY_ADDRESS /\ m.sig = NoNonce
      BY <2>1, StationsFacts, MsgFacts DEF Kinds
    <2> QED  BY <2>2 DEF Fits
  <1>4. (air' = quiet /\ faults' = faults) \/ (s # GATEWAY_ADDRESS /\ Transmit(quiet, m))
    BY DEF Start
  <1> HIDE DEF quiet, m
  <1>5. air' \in Queues /\ Short(air') /\ faults' \in 0..MaxFaults /\ AirInv(r)'
    <2>1. CASE air' = quiet /\ faults' = faults
      <3>1. ASSUME NEW t \in Stations, NEW x, In(x, air'[t]) PROVE Fits(r, t, x)'
        <4>1. Fits(r, t, x)
          BY <1>2, <2>1, <3>1 DEF SignInv, AirInv
        <4> QED  BY <1>1, <4>1 DEF Fits
      <3> QED  BY <1>2, <2>1, <3>1 DEF AirInv, TypeOK
    <2>2. CASE s # GATEWAY_ADDRESS /\ Transmit(quiet, m)
      BY <1>1, <1>2, <1>3, <2>2, AirKept DEF SignInv
    <2> QED  BY <1>4, <2>1, <2>2
  <1>6. TypeOK'
    <2>1. FreshTable \subseteq Stations /\ NoMsg \in MsgType
      <3>1. 0 \in Stations /\ 0 \in Nat
        BY StationsFacts DEF GATEWAY_ADDRESS
      <3> QED  BY <3>1, SigningAssumption, MsgFacts DEF SigningAssumption, Stations, NoMsg, Kinds
    <2>2. /\ doSign' \in [Stations -> SUBSET Stations] /\ running' \subseteq Stations
          /\ nonce' \in [Stations -> Nonces \cup {NoNonce}] /\ verifying' \in [Stations -> BOOLEAN]
          /\ lastRead' \in [Stations -> Nonces \cup {NoNonce}] /\ spoilt' \subseteq Nonces
      BY <1>1, <2>1, GiversFacts DEF TypeOK
    <2>3. waits' \in [Stations -> Seq(MsgType)] /\ msgSign' \in [Stations -> MsgType]
      BY <1>1, <2>1 DEF TypeOK
    <2> QED  BY <1>1, <1>5, <2>2, <2>3 DEF TypeOK, Queues, Short
  <1>7. CallInv'
    BY <1>1 DEF SignInv, CallInv, TypeOK
  <1>8. HolderInv(r)' /\ AcceptedInv'
    BY <1>1, GiversFacts, StationsFacts DEF SignInv, HolderInv, Holds, AcceptedInv, TypeOK
  <1> QED  BY <1>5, <1>6, <1>7, <1>8 DEF SignInv

(* The nonce that is made is new, and is now made for the one that asked.   *)
LEMMA GiveNonceKeeps ==
  ASSUME TypeOK, NEW r \in [Nonces -> Stations], SignInv(r), NEW s \in Stations, GiveNonce(s)
  PROVE  TypeOK' /\ \E q \in [Nonces -> Stations] : SignInv(q)'
  <1> PICK to : to = Head(air[s]).from
    OBVIOUS
  <1> PICK n : n = Len(givers) + 1
    OBVIOUS
  <1> PICK m : m = Msg("I_GET_NONCE_RESPONSE", s, to, n, NoNonce)
    OBVIOUS
  <1> PICK q : q = [r EXCEPT ![n] = to]
    OBVIOUS
  <1>1. /\ Unread(s) \in Queues /\ Short(Unread(s))
        /\ \A t \in Stations : \A x : In(x, Unread(s)[t]) => In(x, air[t])
        /\ to \in Stations /\ to # s
    BY ReadFacts DEF GiveNonce, SignInv, MsgType, Fits
  <1>2. /\ n \in Nonces /\ n \in Nat /\ n # NoNonce /\ n \notin DOMAIN givers
        /\ givers' \in Seq(Stations) /\ Len(givers') <= MaxNonces
        /\ DOMAIN givers' = DOMAIN givers \cup {n} /\ givers'[n] = s
        /\ \A k \in DOMAIN givers : givers'[k] = givers[k] /\ k # n
    <2>1. /\ Len(givers) < MaxNonces /\ givers' = Append(givers, s) /\ givers \in Seq(Stations)
          /\ MaxNonces \in Nat /\ Len(givers) \in Nat /\ DOMAIN givers = 1..Len(givers)
      BY Bounds, GiversFacts DEF GiveNonce, TypeOK
    <2> QED  BY <2>1 DEF Nonces, NoNonce
  <1>3. /\ nonce' = [nonce EXCEPT ![s] = n] /\ verifying' = [verifying EXCEPT ![s] = TRUE]
        /\ spoilt' = spoilt \cup LastGiven(s) /\ lastRead' = [lastRead EXCEPT ![s] = n]
        /\ Transmit(Unread(s), m)
        /\ UNCHANGED <<power, tables, calls, accepted, rejected>>
    BY DEF GiveNonce, getNonce
  <1>4. /\ m \in MsgType /\ m.kind = "I_GET_NONCE_RESPONSE" /\ m.from = s /\ m.to = to
        /\ m.arg = n /\ m.sig = NoNonce
    <2>1. "I_GET_NONCE_RESPONSE" \in Kinds /\ NoNonce \in Nonces \cup {NoNonce}
      BY DEF Kinds
    <2>2. m = Msg("I_GET_NONCE_RESPONSE", s, to, n, NoNonce) /\ to \in Stations /\ n \in Nat
      BY <1>1, <1>2
    <2> QED  BY <2>1, <2>2, MsgFacts
  <1>5. /\ q \in [Nonces -> Stations] /\ q[n] = to
        /\ \A k \in DOMAIN givers : q[k] = r[k]
    BY <1>1, <1>2, GiversFacts
  <1>6. /\ air' \in Queues /\ Short(air') /\ faults' \in 0..MaxFaults
        /\ \A t \in Stations : \A x : In(x, air'[t]) => In(x, Unread(s)[t]) \/ (x = m /\ t = m.to)
    BY <1>1, <1>3, <1>4, AirTyped, TransmitFacts
  <1>7. AirInv(q)'
    <2>1. ASSUME NEW t \in Stations, NEW x, In(x, air'[t]) PROVE Fits(q, t, x)'
      <3>1. CASE In(x, Unread(s)[t])
        <4>1. Fits(r, t, x)
          BY <1>1, <3>1 DEF SignInv, AirInv
        <4> QED  BY <1>2, <1>5, <4>1 DEF Fits
      <3>2. CASE x = m /\ t = to
        BY <1>1, <1>2, <1>4, <1>5, <3>2 DEF Fits
      <3> QED  BY <1>4, <1>6, <2>1, <3>1, <3>2
    <2> QED  BY <2>1 DEF AirInv
  <1>8. TypeOK'
    <2>1. /\ nonce' \in [Stations -> Nonces \cup {NoNonce}] /\ verifying' \in [Stations -> BOOLEAN]
          /\ lastRead' \in [Stations -> Nonces \cup {NoNonce}] /\ spoilt' \subseteq Nonces
      BY <1>2, <1>3, GiversFacts DEF TypeOK
    <2> QED  BY <1>2, <1>3, <1>6, <2>1 DEF TypeOK, power, tables, calls, Queues, Short
  <1>9. CallInv'
    BY <1>3 DEF SignInv, CallInv, calls
  <1>10. HolderInv(q)'
    <2>1. ASSUME NEW t \in Stations, NEW k, Holds(r, t, k) PROVE Holds(q, t, k)'
      BY <1>2, <1>5, <2>1 DEF Holds
    <2>2. Holds(q, s, n)'
      BY <1>2 DEF Holds
    <2> QED  BY <1>3, <2>1, <2>2 DEF SignInv, HolderInv, TypeOK
  <1>11. AcceptedInv'
    <2>1. accepted[n] = <<>>
      BY <1>2 DEF SignInv, AcceptedInv
    <2>2. ASSUME NEW k \in DOMAIN givers',
                 (verifying'[givers'[k]] /\ nonce'[givers'[k]] = k) \/ lastRead'[givers'[k]] = k
          PROVE  accepted[k] = <<>>
      <3>1. CASE k = n
        BY <2>1, <3>1
      <3>2. CASE k \in DOMAIN givers
        <4>1. k # n /\ givers'[k] = givers[k] /\ givers[k] \in Stations
          BY <1>2, <3>2, GiversFacts
        <4>2. (verifying[givers[k]] /\ nonce[givers[k]] = k) \/ lastRead[givers[k]] = k
          BY <1>3, <2>2, <4>1 DEF TypeOK
        <4> QED  BY <3>2, <4>2 DEF SignInv, AcceptedInv
      <3> QED  BY <1>2, <3>1, <3>2
    <2>3. ASSUME NEW k \in Nonces, accepted[k] # <<>>
          PROVE  k \in DOMAIN givers' /\ accepted[k] = <<givers'[k]>>
      BY <1>2, <2>3 DEF SignInv, AcceptedInv
    <2> QED  BY <1>3, <2>2, <2>3 DEF AcceptedInv
  <1> QED  BY <1>5, <1>7, <1>8, <1>9, <1>10, <1>11 DEF SignInv

-------------------------------------------------------------------------------
(* Someone is known to have asked for every nonce.                          *)
HoldersInv == \E r \in [Nonces -> Stations] : SignInv(r)

LEMMA HoldersInit ==
  ASSUME Init
  PROVE  TypeOK /\ HoldersInv
  <1> DEFINE r == [n \in Nonces |-> GATEWAY_ADDRESS]
  <1>1. r \in [Nonces -> Stations]
    BY StationsFacts
  <1>2. TypeOK
    <2>1. FreshTable \subseteq Stations /\ NoMsg \in MsgType
      <3>1. 0 \in Stations /\ 0 \in Nat
        BY StationsFacts DEF GATEWAY_ADDRESS
      <3> QED  BY <3>1, SigningAssumption, MsgFacts DEF SigningAssumption, Stations, NoMsg, Kinds
    <2>2. 0 \in 0..MaxMessages /\ 0 \in 0..MaxStarts /\ 0 \in 0..MaxFaults
          /\ Len(<<>>) <= FifoSize /\ Len(<<>>) <= MaxNonces
      BY Bounds
    <2> QED  BY <2>1, <2>2, StationsFacts DEF Init, TypeOK
  <1>3. AirInv(r)
    BY DEF Init, AirInv, In
  <1>4. CallInv /\ HolderInv(r) /\ AcceptedInv
    BY StationsFacts DEF Init, CallInv, HolderInv, AcceptedInv, Holds
  <1> QED  BY <1>1, <1>2, <1>3, <1>4 DEF SignInv, HoldersInv

LEMMA HoldersNext ==
  ASSUME TypeOK, HoldersInv, [Next]_vars
  PROVE  (TypeOK /\ HoldersInv)'
  <1> PICK r \in [Nonces -> Stations] : SignInv(r)
    BY DEF HoldersInv
  <1>1. CASE Next
    <2> PICK s \in Stations :
          \/ Start(s)
          \/ \E to \in Stations : Send(s, to)
          \/ checkTimer(s)
          \/ GiveNonce(s) \/ IgnoreNonce(s) \/ SignAndSend(s) \/ NonceTimeout(s)
          \/ RejectUnsigned(s) \/ RejectSigned(s) \/ IncomingMessage(s)
          \/ RequestSigning(s)
          \/ ReceivedTwice(s)
      BY <1>1 DEF Next
    <2>1. CASE GiveNonce(s)
      BY <2>1, GiveNonceKeeps DEF HoldersInv
    <2>2. CASE Start(s)
      BY <2>2, StartKeeps DEF HoldersInv
    <2>3. CASE \E to \in Stations : Send(s, to)
      BY <2>3, SendKeeps DEF HoldersInv
    <2>4. CASE checkTimer(s)
      BY <2>4, TimerKeeps DEF HoldersInv
    <2>5. CASE IgnoreNonce(s)
      BY <2>5, IgnoreNonceKeeps DEF HoldersInv
    <2>6. CASE SignAndSend(s)
      BY <2>6, SignAndSendKeeps DEF HoldersInv
    <2>7. CASE NonceTimeout(s)
      BY <2>7, NonceTimeoutKeeps DEF HoldersInv
    <2>8. CASE RejectUnsigned(s)
      BY <2>8, RejectUnsignedKeeps DEF HoldersInv
    <2>9. CASE RejectSigned(s)
      BY <2>9, RejectSignedKeeps DEF HoldersInv
    <2>10. CASE IncomingMessage(s)
      BY <2>10, IncomingMessageKeeps DEF HoldersInv
    <2>11. CASE RequestSigning(s)
      BY <2>11, RequestSigningKeeps DEF HoldersInv
    <2>12. CASE ReceivedTwice(s)
      BY <2>12, ReceivedTwiceKeeps DEF HoldersInv
    <2> QED  BY <2>1, <2>2, <2>3, <2>4, <2>5, <2>6, <2>7, <2>8, <2>9, <2>10, <2>11, <2>12
  <1>2. CASE UNCHANGED vars
    <2>1. TypeOK'
      BY <1>2 DEF TypeOK, vars
    <2>2. SignInv(r)'
      BY <1>2 DEF vars, SignInv, AirInv, Fits, CallInv, HolderInv, Holds, AcceptedInv
    <2> QED  BY <2>1, <2>2 DEF HoldersInv
  <1> QED  BY <1>1, <1>2

(* Every variable keeps its type: queues never exceed what a radio holds,   *)
(* and the messages that lie in them are well formed.                       *)
THEOREM SigningTyped == Spec => []TypeOK
  <1> QED  BY HoldersInit, HoldersNext, PTL DEF Spec

(* A nonce is good for one message, whatever is lost, copied, late or sent  *)
(* in between, and only the station that made the nonce accepts with it.    *)
THEOREM NonceUsedOnce == Spec => []NonceAcceptedOnce
  <1>1. HoldersInv => NonceAcceptedOnce
    BY DEF HoldersInv, SignInv, AcceptedInv, NonceAcceptedOnce
  <1> QED  BY <1>1, HoldersInit, HoldersNext, PTL DEF Spec

-------------------------------------------------------------------------------
(* What a station was told to sign it signs: the table says so, and the one *)
(* in EEPROM that it starts with again; only the gateway, whose table is    *)
(* not kept, forgets, and what it was told with it.                         *)
Agreed ==
  \A s \in Stations, n \in Stations : <<s, n, TRUE>> \in told =>
    n \in doSign[s] /\ (s # GATEWAY_ADDRESS => n \in savedSign[s])
AgreedInv == Agreed /\ ToldMeansSigned

LEMMA SendRouteSigns ==
  ASSUME TypeOK, AgreedInv, NEW s \in Stations, NEW m \in MsgType, NEW queues,
         sendRoute(s, m, queues)
  PROVE  ToldMeansSigned'
  <1>1. CASE UNCHANGED unsigned
    BY <1>1 DEF AgreedInv, ToldMeansSigned
  <1>2. CASE /\ m.to \notin doSign[s]
             /\ unsigned' = unsigned \cup {<<m.arg, b>> : b \in {b \in BOOLEAN : <<s, m.to, b>> \in told}}
    <2>1. m.to \in Stations
      BY DEF MsgType
    <2>2. <<s, m.to, TRUE>> \notin told
      BY <1>2, <2>1 DEF AgreedInv, Agreed
    <2>3. ASSUME NEW k \in Messages, <<k, TRUE>> \in unsigned' PROVE <<k, TRUE>> \in unsigned
      BY <1>2, <2>2, <2>3
    <2> QED  BY <2>3 DEF AgreedInv, ToldMeansSigned
  <1> QED  BY <1>1, <1>2 DEF sendRoute

LEMMA RequestSigningAgrees ==
  ASSUME TypeOK, AgreedInv, NEW s \in Stations, RequestSigning(s)
  PROVE  AgreedInv'
  <1> DEFINE from == Head(air[s]).from
             b == Head(air[s]).arg = 1
  <1>1. /\ doSign' = [doSign EXCEPT ![s] = Notes(s, from, b)]
        /\ savedSign' = [savedSign EXCEPT ![s] = doSign'[s]]
        /\ told' = {t \in told : t[1] # s \/ t[2] # from} \cup {<<s, from, b>>}
        /\ unsigned' = unsigned
    BY DEF RequestSigning, calls
  <1> HIDE DEF from, b
  <1>2. ASSUME NEW t \in Stations, NEW n \in Stations, <<t, n, TRUE>> \in told'
        PROVE  n \in doSign'[t] /\ (t # GATEWAY_ADDRESS => n \in savedSign'[t])
    <2>1. doSign'[s] = Notes(s, from, b) /\ savedSign'[s] = doSign'[s]
      BY <1>1 DEF TypeOK
    <2>2. CASE t = s /\ n = from /\ b
      BY <2>1, <2>2 DEF Notes
    <2>3. CASE <<t, n, TRUE>> \in told /\ (t # s \/ n # from)
      <3>1. n \in doSign[t] /\ (t # GATEWAY_ADDRESS => n \in savedSign[t])
        BY <2>3 DEF AgreedInv, Agreed
      <3> QED  BY <1>1, <2>1, <2>3, <3>1 DEF Notes, TypeOK
    <2> QED  BY <1>1, <1>2, <2>2, <2>3
  <1> QED  BY <1>1, <1>2 DEF AgreedInv, Agreed, ToldMeansSigned

LEMMA StartAgrees ==
  ASSUME TypeOK, AgreedInv, NEW s \in Stations, Start(s)
  PROVE  AgreedInv'
  <1>1. /\ doSign' = [doSign EXCEPT ![s] = IF s = GATEWAY_ADDRESS THEN FreshTable ELSE savedSign[s]]
        /\ told' = IF s = GATEWAY_ADDRESS THEN {t \in told : t[1] # s} ELSE told
        /\ UNCHANGED <<savedSign, unsigned>>
    BY DEF Start
  <1>2. ASSUME NEW t \in Stations, NEW n \in Stations, <<t, n, TRUE>> \in told'
        PROVE  n \in doSign'[t] /\ (t # GATEWAY_ADDRESS => n \in savedSign'[t])
    <2>1. <<t, n, TRUE>> \in told /\ ~(t = s /\ s = GATEWAY_ADDRESS)
      BY <1>1, <1>2
    <2>2. n \in doSign[t] /\ (t # GATEWAY_ADDRESS => n \in savedSign[t])
      BY <2>1 DEF AgreedInv, Agreed
    <2> QED  BY <1>1, <2>1, <2>2 DEF TypeOK
  <1> QED  BY <1>1, <1>2 DEF AgreedInv, Agreed, ToldMeansSigned

LEMMA AgreedNext ==
  ASSUME TypeOK, AgreedInv, [Next]_vars
  PROVE  AgreedInv'
  <1>1. ASSUME UNCHANGED tables, ToldMeansSigned' PROVE AgreedInv'
    BY <1>1 DEF AgreedInv, Agreed, tables
  <1>2. ASSUME UNCHANGED <<tables, unsigned>> PROVE AgreedInv'
    BY <1>2 DEF AgreedInv, Agreed, ToldMeansSigned, tables
  <1>3. CASE Next
    <2> PICK s \in Stations :
          \/ Start(s)
          \/ \E to \in Stations : Send(s, to)
          \/ checkTimer(s)
          \/ GiveNonce(s) \/ IgnoreNonce(s) \/ SignAndSend(s) \/ NonceTimeout(s)
          \/ RejectUnsigned(s) \/ RejectSigned(s) \/ IncomingMessage(s)
          \/ RequestSigning(s)
          \/ ReceivedTwice(s)
      BY <1>3 DEF Next
    <2>1. CASE Start(s)
      BY <2>1, StartAgrees
    <2>2. CASE RequestSigning(s)
      BY <2>2, RequestSigningAgrees
    <2>3. ASSUME NEW to \in Stations, Send(s, to) PROVE AgreedInv'
      <3>1. sent + 1 \in Nat /\ "C_SET" \in Kinds /\ NoNonce \in Nonces \cup {NoNonce}
        BY DEF TypeOK, Kinds
      <3>2. Msg("C_SET", s, to, sent + 1, NoNonce) \in MsgType
        BY <3>1, MsgFacts
      <3>3. sendRoute(s, Msg("C_SET", s, to, sent + 1, NoNonce), air) /\ UNCHANGED tables
        BY <2>3 DEF Send
      <3> QED  BY <1>1, <3>2, <3>3, SendRouteSigns
    <2>4. CASE IncomingMessage(s)
      <3>1. UNCHANGED tables
        BY <2>4 DEF IncomingMessage
      <3>2. CASE UNCHANGED calls
        BY <1>2, <3>1, <3>2 DEF calls
      <3>3. ASSUME NEW to \in Stations,
                   sendRoute(s, Msg("C_SET", s, to, sent + 1, NoNonce), Unread(s))
            PROVE  AgreedInv'
        <4>1. sent + 1 \in Nat /\ "C_SET" \in Kinds /\ NoNonce \in Nonces \cup {NoNonce}
          BY DEF TypeOK, Kinds
        <4>2. Msg("C_SET", s, to, sent + 1, NoNonce) \in MsgType
          BY <4>1, MsgFacts
        <4> QED  BY <1>1, <3>1, <3>3, <4>2, SendRouteSigns
      <3> QED  BY <2>4, <3>2, <3>3 DEF IncomingMessage
    <2>5. CASE \/ checkTimer(s) \/ GiveNonce(s) \/ IgnoreNonce(s) \/ SignAndSend(s)
               \/ NonceTimeout(s) \/ RejectUnsigned(s) \/ RejectSigned(s) \/ ReceivedTwice(s)
      BY <1>2, <2>5 DEF checkTimer, GiveNonce, IgnoreNonce, SignAndSend, NonceTimeout,
        RejectUnsigned, RejectSigned, ReceivedTwice, calls
    <2> QED  BY <2>1, <2>2, <2>3, <2>4, <2>5
  <1>4. CASE UNCHANGED vars
    BY <1>2, <1>4 DEF vars, tables
  <1> QED  BY <1>3, <1>4

(* What a station sends to one that told it to sign is signed or not sent,  *)
(* for as long as it can know: in any order of requests, restarts and       *)
(* messages that handlers send in between.                                  *)
THEOREM ToldSigns == Spec => []ToldMeansSigned
  <1>1. Init => AgreedInv
    BY DEF Init, AgreedInv, Agreed, ToldMeansSigned
  <1>2. AgreedInv => ToldMeansSigned
    BY DEF AgreedInv
  <1> QED  BY <1>1, <1>2, SigningTyped, AgreedNext, PTL DEF Spec

-------------------------------------------------------------------------------
(* A nonce that nothing spoilt is the last one its giver gave, and the one  *)
(* of the session that the giver has open.                                  *)
Live(s) ==
  \A n \in DOMAIN givers : givers[n] = s /\ n \notin spoilt =>
    n \in LastGiven(s) /\ verifying[s] /\ nonce[s] = n
LiveInv == \A s \in Stations : Live(s)
ReasonInv == LiveInv /\ RejectedForAReason

LEMMA LiveKept ==
  ASSUME ReasonInv, UNCHANGED <<signer, givers, rejected>>
  PROVE  ReasonInv'
  BY DEF ReasonInv, LiveInv, Live, LastGiven, RejectedForAReason, signer

LEMMA SessionSpoilt ==
  ASSUME LiveInv, NEW s \in Stations, spoilt' = spoilt \cup LastGiven(s), UNCHANGED givers,
         \A t \in Stations \ {s} : verifying'[t] = verifying[t] /\ nonce'[t] = nonce[t]
  PROVE  LiveInv'
  <1>1. ASSUME NEW t \in Stations, NEW n \in DOMAIN givers, givers[n] = t, n \notin spoilt'
        PROVE  n \in LastGiven(t)' /\ verifying'[t] /\ nonce'[t] = n
    <2>1. n \in LastGiven(t) /\ verifying[t] /\ nonce[t] = n
      BY <1>1 DEF LiveInv, Live
    <2>2. t # s
      BY <1>1, <2>1
    <2> QED  BY <2>1, <2>2 DEF LastGiven
  <1> QED  BY <1>1 DEF LiveInv, Live

LEMMA SessionEndsLive ==
  ASSUME TypeOK, LiveInv, NEW s \in Stations, SessionEnds(s), UNCHANGED givers
  PROVE  LiveInv'
  <1>1. \A t \in Stations \ {s} : verifying'[t] = verifying[t] /\ nonce'[t] = nonce[t]
    BY DEF SessionEnds, TypeOK
  <1>2. CASE verifying[s]
    BY <1>1, <1>2, SessionSpoilt DEF SessionEnds
  <1>3. CASE ~verifying[s]
    <2>1. ASSUME NEW t \in Stations, NEW n \in DOMAIN givers, givers[n] = t, n \notin spoilt'
          PROVE  n \in LastGiven(t)' /\ verifying'[t] /\ nonce'[t] = n
      <3>1. n \in LastGiven(t) /\ verifying[t] /\ nonce[t] = n
        BY <1>3, <2>1 DEF LiveInv, Live, SessionEnds
      <3> QED  BY <1>1, <1>3, <3>1 DEF LastGiven
    <2> QED  BY <2>1 DEF LiveInv, Live
  <1> QED  BY <1>2, <1>3

LEMMA SignsLive ==
  ASSUME TypeOK, LiveInv, NEW s \in Stations, NEW n, Signs(s, n), UNCHANGED givers
  PROVE  LiveInv'
  <1>1. \A t \in Stations \ {s} : verifying'[t] = verifying[t] /\ nonce'[t] = nonce[t]
    BY DEF Signs, TypeOK
  <1> QED  BY <1>1, SessionSpoilt DEF Signs

LEMMA GiveNonceLive ==
  ASSUME TypeOK, LiveInv, NEW s \in Stations, GiveNonce(s)
  PROVE  LiveInv'
  <1> PICK k : k = Len(givers) + 1
    OBVIOUS
  <1>1. /\ nonce' = [nonce EXCEPT ![s] = k] /\ verifying' = [verifying EXCEPT ![s] = TRUE]
        /\ spoilt' = spoilt \cup LastGiven(s) /\ givers' = Append(givers, s)
    BY DEF GiveNonce, getNonce
  <1>2. /\ DOMAIN givers' = DOMAIN givers \cup {k} /\ givers'[k] = s
        /\ \A n \in DOMAIN givers : givers'[n] = givers[n] /\ n < k /\ n \in Nat
        /\ k \in Nat
    <2>1. givers \in Seq(Stations) /\ Len(givers) \in Nat /\ DOMAIN givers = 1..Len(givers)
      BY DEF TypeOK
    <2> QED  BY <1>1, <2>1
  <1>3. ASSUME NEW t \in Stations, NEW n \in DOMAIN givers', givers'[n] = t, n \notin spoilt'
        PROVE  n \in LastGiven(t)' /\ verifying'[t] /\ nonce'[t] = n
    <2>1. CASE n = k
      <3>1. t = s /\ verifying'[s] /\ nonce'[s] = k
        BY <1>1, <1>2, <1>3, <2>1 DEF TypeOK
      <3>2. \A j \in DOMAIN givers' : j <= k
        BY <1>2
      <3> QED  BY <1>2, <2>1, <3>1, <3>2 DEF LastGiven
    <2>2. CASE n \in DOMAIN givers
      <3>1. n \in LastGiven(t) /\ verifying[t] /\ nonce[t] = n
        BY <1>1, <1>2, <1>3, <2>2 DEF LiveInv, Live
      <3>2. t # s
        BY <1>1, <1>3, <3>1
      <3>3. verifying'[t] /\ nonce'[t] = n
        BY <1>1, <3>1, <3>2 DEF TypeOK
      <3>4. n \in LastGiven(t)'
        BY <1>2, <1>3, <3>1, <3>2 DEF LastGiven
      <3> QED  BY <3>3, <3>4
    <2> QED  BY <1>2, <1>3, <2>1, <2>2
  <1> QED  BY <1>3 DEF LiveInv, Live

LEMMA RejectSignedHasAReason ==
  ASSUME TypeOK, HoldersInv, ReasonInv, NEW s \in Stations, RejectSigned(s)
  PROVE  ReasonInv'
  <1> PICK m : m = Head(air[s])
    OBVIOUS
  <1>1. /\ m.sig # NoNonce /\ ~(verifying[s] /\ m.sig = nonce[s])
        /\ SessionEnds(s) /\ UNCHANGED givers
        /\ rejected' = IF givers[m.sig] = s /\ m.sig \notin spoilt THEN rejected \cup {m.sig}
                       ELSE rejected
    BY DEF RejectSigned, verifyMsg
  <1>2. m.sig \in DOMAIN givers
    <2>1. PICK r \in [Nonces -> Stations] : SignInv(r)
      BY DEF HoldersInv
    <2>2. Fits(r, s, m)
      BY <2>1, ReadFacts DEF RejectSigned, SignInv
    <2> QED  BY <1>1, <2>2 DEF Fits
  <1>3. rejected' = rejected
    BY <1>1, <1>2 DEF ReasonInv, LiveInv, Live
  <1> QED  BY <1>1, <1>3, SessionEndsLive DEF ReasonInv, RejectedForAReason

LEMMA ReasonNext ==
  ASSUME TypeOK, HoldersInv, ReasonInv, [Next]_vars
  PROVE  ReasonInv'
  <1>1. ASSUME LiveInv', UNCHANGED rejected PROVE ReasonInv'
    BY <1>1 DEF ReasonInv, RejectedForAReason
  <1>2. CASE Next
    <2> PICK s \in Stations :
          \/ Start(s)
          \/ \E to \in Stations : Send(s, to)
          \/ checkTimer(s)
          \/ GiveNonce(s) \/ IgnoreNonce(s) \/ SignAndSend(s) \/ NonceTimeout(s)
          \/ RejectUnsigned(s) \/ RejectSigned(s) \/ IncomingMessage(s)
          \/ RequestSigning(s)
          \/ ReceivedTwice(s)
      BY <1>2 DEF Next
    <2>1. CASE RejectSigned(s)
      BY <2>1, RejectSignedHasAReason
    <2>2. CASE GiveNonce(s)
      BY <1>1, <2>2, GiveNonceLive DEF ReasonInv, GiveNonce
    <2>3. CASE Start(s) \/ checkTimer(s)
      <3>1. \A t \in Stations \ {s} : verifying'[t] = verifying[t] /\ nonce'[t] = nonce[t]
        BY <2>3 DEF Start, checkTimer, TypeOK
      <3>2. spoilt' = spoilt \cup LastGiven(s) /\ UNCHANGED <<givers, rejected>>
        BY <2>3 DEF Start, checkTimer
      <3> QED  BY <1>1, <3>1, <3>2, SessionSpoilt DEF ReasonInv
    <2>4. CASE SignAndSend(s)
      <3>1. Signs(s, Head(air[s]).arg) /\ UNCHANGED <<givers, rejected>>
        BY <2>4 DEF SignAndSend
      <3> QED  BY <1>1, <3>1, SignsLive DEF ReasonInv
    <2>5. CASE NonceTimeout(s)
      <3>1. (Signs(s, lastRead[s]) \/ UNCHANGED signer) /\ UNCHANGED <<givers, rejected>>
        BY <2>5 DEF NonceTimeout
      <3> QED  BY <1>1, <3>1, SignsLive, LiveKept DEF ReasonInv
    <2>6. CASE IncomingMessage(s)
      <3>1. (SessionEnds(s) \/ UNCHANGED signer) /\ UNCHANGED <<givers, rejected>>
        BY <2>6 DEF IncomingMessage, Verified
      <3> QED  BY <1>1, <3>1, SessionEndsLive, LiveKept DEF ReasonInv
    <2>7. CASE \/ (\E to \in Stations : Send(s, to)) \/ IgnoreNonce(s) \/ RejectUnsigned(s)
               \/ RequestSigning(s) \/ ReceivedTwice(s)
      <3>1. UNCHANGED <<signer, givers, rejected>>
        BY <2>7 DEF Send, IgnoreNonce, RejectUnsigned, RequestSigning, ReceivedTwice
      <3> QED  BY <3>1, LiveKept
    <2> QED  BY <2>1, <2>2, <2>3, <2>4, <2>5, <2>6, <2>7
  <1>3. CASE UNCHANGED vars
    <2>1. UNCHANGED <<signer, givers, rejected>>
      BY <1>3 DEF vars, signer
    <2> QED  BY <2>1, LiveKept
  <1> QED  BY <1>2, <1>3

(* Who signs with the nonce it was given is only turned down for a reason:  *)
(* the session of its receiver had ended, and the nonce with it.            *)
THEOREM RejectionsHaveAReason == Spec => []RejectedForAReason
  <1>1. Init => ReasonInv
    BY DEF Init, ReasonInv, LiveInv, Live, RejectedForAReason
  <1>2. ReasonInv => RejectedForAReason
    BY DEF ReasonInv
  <1> QED  BY <1>1, <1>2, HoldersInit, HoldersNext, ReasonNext, PTL DEF Spec
================================================================================
