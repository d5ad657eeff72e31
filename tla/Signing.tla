-------------------------------- MODULE Signing --------------------------------
(***************************************************************************)
(* Signed messages of libraries/MySensors: the nonce exchange in sendRoute *)
(* and process of MySensor.cpp, with the backend MySigningAtsha204Soft.cpp.*)
(* (MySigningAtsha204.cpp has the same state and leaves the digest to the  *)
(* chip.)  The gateway is built with requestSignatures.                    *)
(*                                                                         *)
(* A station asks the destination for a nonce, waits, signs with it and    *)
(* sends.  While it waits it calls process(), whose handlers may send, and *)
(* wait, themselves: the waits of a station are a stack.  Each station has *)
(* one nonce for what it signs and what it verifies, one buffer for the    *)
(* message to sign and one for the message read last.                      *)
(*                                                                         *)
(* Every station is one hop from the gateway or sends through repeaters    *)
(* that are not shown; messages get lost, copied, and lie unread.          *)
(***************************************************************************)
EXTENDS Integers, Sequences, FiniteSets

CONSTANTS
  Nodes,          \* stations other than the gateway
  Require,        \* the stations built with requestSignatures
  FreshTable,     \* whom the gateway signs to when it starts: the bytes that
                  \* hw_readConfigBlock zeroes (MyHwESP8266.cpp:71)
  LongMessages,   \* messages whose payload leaves no room for a signature
  FifoSize,       \* messages a radio holds until they are read
  MaxMessages,    \* bound: messages sent
  MaxNonces,      \* bound: nonces given out
  MaxStarts,      \* bound: starts of stations
  MaxFaults       \* bound: messages lost or copied, sessions and waits timed out

GATEWAY_ADDRESS == 0
Stations == Nodes \cup {GATEWAY_ADDRESS}
Messages == 1..MaxMessages
Nonces == 1..MaxNonces
NoNonce == 0          \* current_nonce purged, or a message without signature

ASSUME SigningAssumption ==
  /\ Nodes \subseteq 1..254
  /\ Require \subseteq Stations /\ FreshTable \subseteq Nodes
  /\ {FifoSize, MaxMessages, MaxNonces, MaxStarts, MaxFaults} \subseteq Nat

VARIABLES
  running,     \* the stations that are on
  doSign,      \* whom a station signs to
  savedSign,   \* the table in EEPROM
  nonce,       \* current_nonce
  verifying,   \* verification_ongoing
  waits,       \* stack of sendRoute calls that wait for a nonce: the message of each
  msgSign,     \* the message to sign, one for all the waits
  lastRead,    \* the nonce in msg if that is an I_GET_NONCE_RESPONSE
  air,         \* messages a station received and has not read, in order
  givers,      \* givers[n]: the station that made nonce n
  sent,        \* messages sent so far
  starts, faults,
  accepted,    \* history: the stations that accepted a message signed with n
  spoilt,      \* history: nonces whose giver cannot verify with them any more
  rejected,    \* history: nonces of signed messages that their giver rejected
  told,        \* history: <<s, n, b>>: station s read last from n whether it
               \* requires signatures
  unsigned     \* history: <<m, b>>: message m was sent without a signature to a
               \* station that had told the sender b

air_ == <<air, faults>>
tables == <<doSign, savedSign, told>>
signer == <<nonce, verifying, spoilt>>
calls == <<waits, msgSign, sent, unsigned>>
power == <<running, starts>>
vars == <<running, doSign, savedSign, nonce, verifying, waits, msgSign, lastRead,
          air, givers, sent, starts, faults, accepted, spoilt, rejected, told,
          unsigned>>

Kinds == {"I_GET_NONCE", "I_GET_NONCE_RESPONSE", "I_REQUEST_SIGNING", "C_SET"}
(* arg: the nonce, the message, or whether signatures are required          *)
Msg(kind, from, to, arg, sig) == [kind |-> kind, from |-> from, to |-> to, arg |-> arg, sig |-> sig]
NoMsg == Msg("C_SET", 0, 0, 0, NoNonce)
Flag(b) == IF b THEN 1 ELSE 0

Init ==
  /\ running = {GATEWAY_ADDRESS}
  /\ doSign = [s \in Stations |-> IF s = GATEWAY_ADDRESS THEN FreshTable ELSE {}]
  /\ savedSign = [s \in Stations |-> {}]
  /\ nonce = [s \in Stations |-> NoNonce]
  /\ verifying = [s \in Stations |-> FALSE]
  /\ waits = [s \in Stations |-> <<>>]
  /\ msgSign = [s \in Stations |-> NoMsg]
  /\ lastRead = [s \in Stations |-> NoNonce]
  /\ air = [s \in Stations |-> <<>>]
  /\ givers = <<>>
  /\ sent = 0 /\ starts = 0 /\ faults = 0
  /\ accepted = [n \in Nonces |-> <<>>]
  /\ spoilt = {} /\ rejected = {} /\ told = {} /\ unsigned = {}

-------------------------------------------------------------------------------
(* The radio.  queues: what is unread without the message being processed. *)

Unread(s) == [air EXCEPT ![s] = Tail(@)]

Arrives(queues, m) ==
  /\ m.to \in running /\ Len(queues[m.to]) < FifoSize
  /\ air' = [queues EXCEPT ![m.to] = Append(@, m)]
  /\ faults' = faults

GetsLost(queues, m) ==
  /\ air' = queues
  /\ \/ m.to \in running /\ Len(queues[m.to]) < FifoSize
        /\ faults < MaxFaults /\ faults' = faults + 1
     \/ ~(m.to \in running /\ Len(queues[m.to]) < FifoSize) /\ faults' = faults

Transmit(queues, m) == Arrives(queues, m) \/ GetsLost(queues, m)

(* sendRoute of a message s is the sender of: without a signature, or the   *)
(* first half of the exchange.  When the request for the nonce is not       *)
(* acknowledged, the call ends there.                                       *)
sendRoute(s, m, queues) ==
  \/ /\ m.to \notin doSign[s]
     /\ Transmit(queues, m)
     /\ unsigned' = unsigned \cup {<<m.arg, b>> : b \in {b \in BOOLEAN : <<s, m.to, b>> \in told}}
     /\ UNCHANGED <<waits, msgSign>>
  \/ /\ m.to \in doSign[s]
     /\ LET request == Msg("I_GET_NONCE", s, m.to, 0, NoNonce) IN
        \/ /\ Transmit(queues, request)
           /\ waits' = [waits EXCEPT ![s] = Append(@, m)]
           /\ msgSign' = [msgSign EXCEPT ![s] = m]
        \/ GetsLost(queues, request) /\ UNCHANGED <<waits, msgSign>>
     /\ UNCHANGED unsigned

(* The loop of the application sends; it does not run while a call waits.   *)
Send(s, to) ==
  /\ s \in running /\ waits[s] = <<>>
  /\ to # s /\ GATEWAY_ADDRESS \in {s, to}
  /\ sent < MaxMessages /\ sent' = sent + 1
  /\ sendRoute(s, Msg("C_SET", s, to, sent + 1, NoNonce), air)
  /\ UNCHANGED <<power, tables, signer, lastRead, givers, accepted, rejected>>

-------------------------------------------------------------------------------
(* process(): first the timer of the session, then the message.  (Operators *)
(* named ...Fault are slips the properties must catch, no part of Next.)    *)

LastGiven(s) == {n \in DOMAIN givers : givers[n] = s /\ \A k \in DOMAIN givers : givers[k] = s => k <= n}

Process(s, kind) ==
  /\ s \in running /\ air[s] # <<>> /\ Head(air[s]).kind = kind

(* The first thing process() does, and verifyMsg again: the session expires *)
(* at any time and the nonce goes with it.  Nothing else looks at the two   *)
(* before the message that is read then, so this is a step of its own.      *)
checkTimer(s) ==
  /\ s \in running /\ verifying[s]
  /\ faults < MaxFaults /\ faults' = faults + 1
  /\ nonce' = [nonce EXCEPT ![s] = NoNonce]
  /\ verifying' = [verifying EXCEPT ![s] = FALSE]
  /\ spoilt' = spoilt \cup LastGiven(s)
  /\ UNCHANGED <<power, tables, calls, lastRead, air, givers, accepted, rejected>>

getNonce(s) ==
  /\ nonce' = [nonce EXCEPT ![s] = Len(givers) + 1]
  /\ verifying' = [verifying EXCEPT ![s] = TRUE]

GiveNonce(s) ==
  LET m == Head(air[s]) IN
  /\ Process(s, "I_GET_NONCE")
  /\ Len(givers) < MaxNonces /\ givers' = Append(givers, s)
  /\ getNonce(s)
  /\ spoilt' = spoilt \cup LastGiven(s)
  /\ lastRead' = [lastRead EXCEPT ![s] = Len(givers) + 1]
  /\ Transmit(Unread(s), Msg("I_GET_NONCE_RESPONSE", s, m.from, Len(givers) + 1, NoNonce))
  /\ UNCHANGED <<power, tables, calls, accepted, rejected>>

IgnoreNonceFault(s) ==   \* put where the nonce of the session is
  /\ Process(s, "I_GET_NONCE_RESPONSE")
  /\ waits[s] = <<>>
  /\ air' = Unread(s)
  /\ lastRead' = [lastRead EXCEPT ![s] = Head(air[s]).arg]
  /\ nonce' = [nonce EXCEPT ![s] = Head(air[s]).arg]
  /\ UNCHANGED <<power, tables, verifying, spoilt, calls, givers, faults, accepted, rejected>>

(* A nonce nobody waits for is read and dropped.                            *)
IgnoreNonce(s) ==
  /\ Process(s, "I_GET_NONCE_RESPONSE")
  /\ waits[s] = <<>>
  /\ air' = Unread(s)
  /\ lastRead' = [lastRead EXCEPT ![s] = Head(air[s]).arg]
  /\ UNCHANGED <<power, tables, signer, calls, givers, faults, accepted, rejected>>

(* putNonce and signMsg: the nonce is gone once a signature was made; a     *)
(* message that is too long leaves it where it is.                          *)
Signs(s, n) ==
  /\ nonce' = [nonce EXCEPT ![s] = IF msgSign[s].arg \in LongMessages THEN n ELSE NoNonce]
  /\ spoilt' = spoilt \cup LastGiven(s)
  /\ UNCHANGED verifying

(* The nonce arrives, from whomever.  The innermost call signs and sends;   *)
(* every call around it finds the same nonce in msg, signs the same msgSign *)
(* and sends it in place of its own message, unless its time is over.       *)
(* copies of the message arrive.                                            *)
SignAndSend(s) ==
  LET n == Head(air[s]).arg
      m == [msgSign[s] EXCEPT !.sig = n]
      all == IF m.arg \in LongMessages THEN 0 ELSE Len(waits[s])
  IN
  /\ Process(s, "I_GET_NONCE_RESPONSE")
  /\ waits[s] # <<>>
  /\ Signs(s, n)
  /\ waits' = [waits EXCEPT ![s] = <<>>]
  /\ lastRead' = [lastRead EXCEPT ![s] = n]
  /\ \E copies \in 0..all :
       /\ copies = 0 \/ m.to \in running
       /\ Len(Unread(s)[m.to]) + copies <= FifoSize
       /\ air' = [Unread(s) EXCEPT ![m.to] = @ \o [i \in 1..copies |-> m]]
       /\ \/ copies = all /\ faults' = faults
          \/ copies < all /\ faults < MaxFaults /\ faults' = faults + 1
  /\ UNCHANGED <<power, tables, msgSign, sent, unsigned, givers, accepted, rejected>>

(* The innermost wait is over, and with it those around it, which began     *)
(* earlier; if the message in msg is a nonce they have signed before they   *)
(* see that.                                                                *)
NonceTimeout(s) ==
  /\ s \in running /\ waits[s] # <<>>
  /\ faults < MaxFaults /\ faults' = faults + 1
  /\ waits' = [waits EXCEPT ![s] = <<>>]
  /\ IF Len(waits[s]) > 1 /\ lastRead[s] # NoNonce
     THEN Signs(s, lastRead[s]) ELSE UNCHANGED signer
  /\ UNCHANGED <<power, tables, msgSign, sent, unsigned, lastRead, air, givers, accepted, rejected>>

-------------------------------------------------------------------------------
(* process() of a message with a payload *)

NeedsSignature(s) == s \in Require

verifyMsg(s, m) == verifying[s] /\ m.sig = nonce[s]

(* What verifying leaves behind: without a session nothing changes.         *)
SessionEndsFault(s) ==   \* neither the session nor the nonce is given up
  UNCHANGED signer

SessionEnds(s) ==
  /\ nonce' = [nonce EXCEPT ![s] = IF verifying[s] THEN NoNonce ELSE @]
  /\ verifying' = [verifying EXCEPT ![s] = FALSE]
  /\ spoilt' = IF verifying[s] THEN spoilt \cup LastGiven(s) ELSE spoilt

RejectUnsigned(s) ==
  /\ Process(s, "C_SET") /\ NeedsSignature(s)
  /\ Head(air[s]).sig = NoNonce
  /\ air' = Unread(s)
  /\ lastRead' = [lastRead EXCEPT ![s] = NoNonce]
  /\ UNCHANGED <<power, tables, signer, calls, givers, faults, accepted, rejected>>

RejectSigned(s) ==
  LET m == Head(air[s]) IN
  /\ Process(s, "C_SET") /\ NeedsSignature(s)
  /\ m.sig # NoNonce /\ ~verifyMsg(s, m)
  /\ SessionEnds(s)
  /\ rejected' = IF givers[m.sig] = s /\ m.sig \notin spoilt THEN rejected \cup {m.sig} ELSE rejected
  /\ air' = Unread(s)
  /\ lastRead' = [lastRead EXCEPT ![s] = NoNonce]
  /\ UNCHANGED <<power, tables, calls, givers, faults, accepted>>

Verified(s, m) ==
  IF NeedsSignature(s)
  THEN /\ m.sig # NoNonce /\ verifyMsg(s, m)
       /\ SessionEnds(s)
       /\ accepted' = [accepted EXCEPT ![m.sig] = IF Len(@) < 2 THEN Append(@, s) ELSE @]
  ELSE UNCHANGED <<signer, accepted>>

(* The callback may send a message of its own, in the middle of process().  *)
IncomingMessage(s) ==
  LET m == Head(air[s]) IN
  /\ Process(s, "C_SET")
  /\ Verified(s, m)
  /\ lastRead' = [lastRead EXCEPT ![s] = NoNonce]
  /\ \/ air' = Unread(s) /\ faults' = faults /\ UNCHANGED calls
     \/ \E to \in Stations \ {s} :
          /\ GATEWAY_ADDRESS \in {s, to}
          /\ sent < MaxMessages /\ sent' = sent + 1
          /\ sendRoute(s, Msg("C_SET", s, to, sent + 1, NoNonce), Unread(s))
  /\ UNCHANGED <<power, tables, givers, rejected>>

NotesFault(s, n, b) ==   \* a set bit taken for "sign", as in the message
  IF b THEN doSign[s] \ {n} ELSE doSign[s] \cup {n}

(* SET_SIGN and CLEAR_SIGN: a cleared bit means that s signs to n.          *)
Notes(s, n, b) == IF b THEN doSign[s] \cup {n} ELSE doSign[s] \ {n}

(* I_REQUEST_SIGNING; the gateway answers what it wants of the sender.      *)
RequestSigning(s) ==
  LET m == Head(air[s])
      b == m.arg = 1
      wanted == s \in Require /\ b
      reply == Msg("I_REQUEST_SIGNING", s, m.from, Flag(wanted), NoNonce)
  IN
  /\ Process(s, "I_REQUEST_SIGNING")
  /\ doSign' = [doSign EXCEPT ![s] = Notes(s, m.from, b)]
  /\ savedSign' = [savedSign EXCEPT ![s] = doSign'[s]]
  /\ told' = {t \in told : t[1] # s \/ t[2] # m.from} \cup {<<s, m.from, b>>}
  /\ lastRead' = [lastRead EXCEPT ![s] = NoNonce]
  /\ IF s = GATEWAY_ADDRESS THEN Transmit(Unread(s), reply)
     ELSE air' = Unread(s) /\ faults' = faults
  /\ UNCHANGED <<power, signer, calls, givers, accepted, rejected>>

-------------------------------------------------------------------------------
(* begin(): the session, the waits and what is unread are gone.  The table  *)
(* is read back, which works on a node; the "EEPROM" of the gateway is RAM. *)
(* A node tells the gateway what it requires.                               *)
Start(s) ==
  LET quiet == [air EXCEPT ![s] = <<>>] IN
  /\ starts < MaxStarts /\ starts' = starts + 1
  /\ running' = running \cup {s}
  /\ doSign' = [doSign EXCEPT ![s] = IF s = GATEWAY_ADDRESS THEN FreshTable ELSE savedSign[s]]
  /\ told' = IF s = GATEWAY_ADDRESS THEN {t \in told : t[1] # s} ELSE told
  /\ nonce' = [nonce EXCEPT ![s] = NoNonce]
  /\ verifying' = [verifying EXCEPT ![s] = FALSE]
  /\ spoilt' = spoilt \cup LastGiven(s)
  /\ waits' = [waits EXCEPT ![s] = <<>>]
  /\ msgSign' = [msgSign EXCEPT ![s] = NoMsg]
  /\ lastRead' = [lastRead EXCEPT ![s] = NoNonce]
  /\ IF s = GATEWAY_ADDRESS THEN air' = quiet /\ faults' = faults
     ELSE Transmit(quiet, Msg("I_REQUEST_SIGNING", s, GATEWAY_ADDRESS, Flag(s \in Require), NoNonce))
  /\ UNCHANGED <<savedSign, givers, sent, unsigned, accepted, rejected>>

(* The radio receives a message twice, or a repeater passes it on twice.    *)
ReceivedTwice(s) ==
  /\ air[s] # <<>> /\ Len(air[s]) < FifoSize
  /\ faults < MaxFaults /\ faults' = faults + 1
  /\ air' = [air EXCEPT ![s] = Append(@, Head(@))]
  /\ UNCHANGED <<power, tables, signer, calls, lastRead, givers, accepted, rejected>>

Next == \E s \in Stations :
  \/ Start(s)
  \/ \E to \in Stations : Send(s, to)
  \/ checkTimer(s)
  \/ GiveNonce(s) \/ IgnoreNonce(s) \/ SignAndSend(s) \/ NonceTimeout(s)
  \/ RejectUnsigned(s) \/ RejectSigned(s) \/ IncomingMessage(s)
  \/ RequestSigning(s)
  \/ ReceivedTwice(s)

Spec == Init /\ [][Next]_vars

-------------------------------------------------------------------------------
MsgType == [kind : Kinds, from : Stations, to : Stations, arg : Nat, sig : Nonces \cup {NoNonce}]

TypeOK ==
  /\ running \subseteq Stations
  /\ doSign \in [Stations -> SUBSET Stations] /\ savedSign \in [Stations -> SUBSET Stations]
  /\ nonce \in [Stations -> Nonces \cup {NoNonce}]
  /\ verifying \in [Stations -> BOOLEAN]
  /\ waits \in [Stations -> Seq(MsgType)] /\ msgSign \in [Stations -> MsgType]
  /\ lastRead \in [Stations -> Nonces \cup {NoNonce}]
  /\ air \in [Stations -> Seq(MsgType)] /\ \A s \in Stations : Len(air[s]) <= FifoSize
  /\ givers \in Seq(Stations) /\ Len(givers) <= MaxNonces
  /\ sent \in 0..MaxMessages /\ starts \in 0..MaxStarts /\ faults \in 0..MaxFaults
  /\ accepted \in [Nonces -> Seq(Stations)]
  /\ spoilt \subseteq Nonces /\ rejected \subseteq Nonces
  /\ unsigned \subseteq Messages \X BOOLEAN
  /\ told \subseteq Stations \X Stations \X BOOLEAN

(* A nonce is good for one message: whatever is lost, copied, late or sent   *)
(* in between, no two messages, and no two copies of one, are accepted with  *)
(* the same nonce, and only by the station that made it.                     *)
NonceAcceptedOnce ==
  \A n \in Nonces : accepted[n] # <<>> => accepted[n] = <<givers[n]>>

(* A message signed with the nonce its receiver made for it is only rejected *)
(* if the session came to an end before: by another message, by another      *)
(* request, by a signature the receiver made itself, by time or a restart.   *)
RejectedForAReason == rejected = {}

(* After a station said that it requires signatures, what the one it told    *)
(* sends to it is signed or not sent, until one of the two starts again.     *)
ToldMeansSigned == \A m \in Messages : <<m, TRUE>> \notin unsigned

(* The comment on the answer of the gateway says that it does not want       *)
(* signatures from all nodes because one node wants its messages signed: what*)
(* a node sends after it was told not to sign is not rejected for the lack   *)
(* of a signature.                                                           *)
ToldNotToSignIsHeard ==
  [][RejectUnsigned(GATEWAY_ADDRESS)
       => <<Head(air[GATEWAY_ADDRESS]).arg, FALSE>> \notin unsigned]_vars
================================================================================
