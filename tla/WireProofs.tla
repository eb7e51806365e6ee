----------------------------- MODULE WireProofs -----------------------------
(***************************************************************************)
(* Identifiers and the acceptance filter, for every frame anybody may send *)
(* and every node number: fields survive the packing, and the filter and   *)
(* the decoder agree on what is for this node.                             *)
(***************************************************************************)
EXTENDS Wire, SequenceTheorems, TLAPS

\* One field above another: the quotient is the upper, the remainder the lower.
LEMMA Above16 ==
    ASSUME NEW high \in Nat, NEW low \in Nat, low < 65536
    PROVE  (high * 65536 + low) % 65536 = low /\ (high * 65536 + low) \div 65536 = high
BY Z3

LEMMA Above21 ==
    ASSUME NEW high \in Nat, NEW low \in Nat, low < 2097152
    PROVE  (high * 2097152 + low) \div 2097152 = high
BY Z3

LEMMA Above26 ==
    ASSUME NEW high \in Nat, NEW low \in Nat, low < 67108864
    PROVE  (high * 67108864 + low) \div 67108864 = high
BY Z3

LEMMA Above5 ==
    ASSUME NEW high \in Nat, NEW low \in Nat, low < 32
    PROVE  (high * 32 + low) % 32 = low
BY Z3

\* A record of four fields is what its fields are.
LEMMA FieldByField ==
    \A T, D, S, N : \A m \in [type : T, dest : D, source : S, seq : N] :
        /\ m.type \in T /\ m.dest \in D /\ m.source \in S /\ m.seq \in N
        /\ m = [type |-> m.type, dest |-> m.dest, source |-> m.source, seq |-> m.seq]
BY Z3

\* The greatest number of sixteen bits.
LEMMA SeqMaxIs == SeqMax \in Nat /\ SeqMax < 65536
  BY DEF SeqMax

\* Identifiers are read as they were made: can_protocol_parse_id() undoes
\* can_protocol_make_id(), and build_id() makes the same ones.
LEMMA ParseMake ==
    ASSUME NEW m \in Fields
    PROVE  MakeId(m) <= IdMax /\ ParseId(MakeId(m)) = m /\ BuildId(m) = MakeId(m)
<1>1. PICK t \in 0..7, d \in 0..31, s \in 0..31, n \in 0..SeqMax :
        m = [type |-> t, dest |-> d, source |-> s, seq |-> n]
  BY FieldByField DEF Fields
<1>2. t \in Nat /\ t < 8 /\ d \in Nat /\ d < 32 /\ s \in Nat /\ s < 32
  BY Z3
<1>3. n \in Nat /\ n < 65536
  BY SeqMaxIs
<1>4. PICK id : id = t * 67108864 + d * 2097152 + s * 65536 + n
  OBVIOUS
<1>5. MakeId(m) = id
  BY <1>1, <1>4, Z3 DEF MakeId
<1>6. /\ id <= IdMax
      /\ id % 65536 = n
      /\ (id \div 65536) % 32 = s
      /\ (id \div 2097152) % 32 = d
      /\ (id \div 67108864) % 8 = t
  <2>1. id \in Nat /\ id <= IdMax
    BY <1>2, <1>3, <1>4, Z3 DEF IdMax
  <2>2. id % 65536 = n /\ id \div 65536 = (t * 32 + d) * 32 + s
    <3>1. id = ((t * 32 + d) * 32 + s) * 65536 + n /\ (t * 32 + d) * 32 + s \in Nat
      BY <1>2, <1>3, <1>4, Z3
    <3> QED
      BY <3>1, <1>3, Above16
  <2>3. (id \div 65536) % 32 = s
    <3>1. t * 32 + d \in Nat
      BY <1>2, <1>3, <1>4, Z3
    <3> QED
      BY <2>2, <3>1, <1>2, Above5
  <2>4. (id \div 2097152) % 32 = d
    <3>1. /\ id = (t * 32 + d) * 2097152 + (s * 65536 + n)
          /\ t * 32 + d \in Nat /\ s * 65536 + n \in Nat /\ s * 65536 + n < 2097152
      BY <1>2, <1>3, <1>4, Z3
    <3>2. id \div 2097152 = t * 32 + d
      BY <3>1, Above21
    <3> QED
      BY <3>2, <1>2, Above5
  <2>5. (id \div 67108864) % 8 = t
    <3>1. /\ id = t * 67108864 + (d * 2097152 + s * 65536 + n)
          /\ d * 2097152 + s * 65536 + n \in Nat /\ d * 2097152 + s * 65536 + n < 67108864
      BY <1>2, <1>3, <1>4, Z3
    <3>2. id \div 67108864 = t
      BY <3>1, <1>2, Above26
    <3>3. t % 8 = t
      BY <1>2, <1>3, <1>4, Z3
    <3> QED
      BY <3>2, <3>3
  <2> QED
    BY <2>1, <2>2, <2>3, <2>4, <2>5
<1>7. TypeOf(id) = t /\ DestOf(id) = d /\ SourceOf(id) = s /\ SequenceOf(id) = n
  BY <1>6, Z3 DEF TypeOf, DestOf, SourceOf, SequenceOf
<1>8. BuildId(m) = id
  <2>1. n % 65536 = n
    BY <1>3, Z3
  <2> QED
    BY <1>1, <1>4, <2>1, Z3 DEF BuildId
<1> QED
  BY <1>1, <1>5, <1>6, <1>7, <1>8, Z3 DEF ParseId

\* The Pi reads an identifier as the firmware does.
LEMMA ReadAsParsed == \A id : ReadId(id) = ParseId(id)
BY Z3 DEF ReadId, ParseId, TypeOf, DestOf, SourceOf, SequenceOf

-----------------------------------------------------------------------------
(* The filter                                                              *)

\* What each bank lets through.
LEMMA Banks ==
    ASSUME NEW id
    PROVE  /\ Matches(UnicastBank(Self), id)
                <=> DestOf(id) = Self /\ SourceOf(id) = Controller
           /\ Matches(BroadcastBank, id)
                <=> /\ TypeOf(id) = EnterSafe
                    /\ DestOf(id) = Broadcast /\ SourceOf(id) = Controller
<1> DEFINE unicast == [type |-> 0, dest |-> Self, source |-> Controller, seq |-> 0]
           broadcast == [type |-> EnterSafe, dest |-> Broadcast, source |-> Controller, seq |-> 0]
<1>1. unicast \in Fields /\ broadcast \in Fields
  <2>1. 0 \in 0..SeqMax
    BY Z3 DEF SeqMax
  <2>2. Self \in 0..31
    BY WireAssumption, Z3
  <2> QED
    BY <2>1, <2>2 DEF Fields, Controller, Broadcast, EnterSafe
<1>2. ParseId(MakeId(unicast)) = unicast /\ ParseId(MakeId(broadcast)) = broadcast
  BY <1>1, ParseMake
<1>3. /\ ParseId(id)["type"] = TypeOf(id) /\ ParseId(id)["dest"] = DestOf(id)
      /\ ParseId(id)["source"] = SourceOf(id)
  BY DEF ParseId
<1>4. UnicastBank(Self) = [compares |-> {"dest", "source"}, id |-> MakeId(unicast)]
  BY DEF UnicastBank
<1>5. BroadcastBank = [compares |-> {"type", "dest", "source"}, id |-> MakeId(broadcast)]
  BY DEF BroadcastBank
<1>6. Matches(UnicastBank(Self), id) <=> DestOf(id) = Self /\ SourceOf(id) = Controller
  BY <1>2, <1>3, <1>4 DEF Matches
<1>7. Matches(BroadcastBank, id)
        <=> TypeOf(id) = EnterSafe /\ DestOf(id) = Broadcast /\ SourceOf(id) = Controller
  BY <1>2, <1>3, <1>5 DEF Matches
<1> QED
  BY <1>6, <1>7

\* What the decoder sees of an identifier.
LEMMA Seen ==
    ASSUME NEW f, TypeOf(f.id) \in 0..7, f.extended \in BOOLEAN, f.remote \in BOOLEAN
    PROVE  /\ Read(f).extended = (f.extended /\ ~f.remote)
           /\ Read(f).type = "ENTER_SAFE" <=> TypeOf(f.id) = EnterSafe
           /\ Read(f).dest = IF DestOf(f.id) = Self THEN "SELF"
                             ELSE IF DestOf(f.id) = Broadcast THEN "BROADCAST" ELSE "OTHER"
           /\ Read(f).source = "CONTROLLER" <=> SourceOf(f.id) = Controller
           /\ Read(f).type \in Firmware!ReportTypes <=> TypeOf(f.id) > 4
<1>1. PICK t \in 0..7 : t = TypeOf(f.id)
  OBVIOUS
<1>2. /\ TypeNames[t + 1] = "ENTER_SAFE" <=> t = EnterSafe
      /\ TypeNames[t + 1] \in Firmware!ReportTypes <=> t > 4
  BY <1>1, Z3 DEF TypeNames, EnterSafe, Firmware!ReportTypes
<1>3. ParseId(f.id) = [type |-> t, dest |-> DestOf(f.id), source |-> SourceOf(f.id),
                       seq |-> SequenceOf(f.id)]
  BY <1>1 DEF ParseId
<1>4. /\ Read(f).extended = (f.extended /\ ~f.remote)
      /\ Read(f).type = TypeNames[t + 1]
  BY <1>3 DEF Read
<1>5. Read(f).dest = IF DestOf(f.id) = Self THEN "SELF"
                     ELSE IF DestOf(f.id) = Broadcast THEN "BROADCAST" ELSE "OTHER"
  BY <1>3 DEF Read
<1>6. Read(f).source = IF SourceOf(f.id) = Controller THEN "CONTROLLER" ELSE "NODE"
  BY <1>3 DEF Read
<1> QED
  BY <1>1, <1>2, <1>4, <1>5, <1>6

\* The filter and the decoder agree: what is filtered is nothing for this node, and
\* what passes has an address the decoder does not object to.
LEMMA FilterAgrees ==
    ASSUME NEW f, TypeOf(f.id) \in 0..7, f.extended \in BOOLEAN, f.remote \in BOOLEAN
    PROVE  /\ ~Passes(Self, f) => Verdict(f) # "OK" /\ ~Answerable(f)
           /\ Passes(Self, f) =>
                Verdict(f) \notin {"IGNORED", "INVALID_ID", "BROADCAST_NOT_ALLOWED"}
<1>1. Self # Broadcast
  BY WireAssumption, Z3 DEF Broadcast
<1>2. Passes(Self, f) <=>
        /\ f.extended /\ ~f.remote
        /\ SourceOf(f.id) = Controller
        /\ DestOf(f.id) = Self \/ (TypeOf(f.id) = EnterSafe /\ DestOf(f.id) = Broadcast)
  BY Banks DEF Passes
<1>3. CASE ~(f.extended /\ ~f.remote)
  BY <1>2, <1>3, Seen DEF Verdict, Firmware!Decode, Answerable
<1>4. CASE (f.extended /\ ~f.remote) /\ DestOf(f.id) \notin {Self, Broadcast}
  BY <1>2, <1>4, Seen DEF Verdict, Firmware!Decode, Answerable
<1>5. CASE (f.extended /\ ~f.remote) /\ DestOf(f.id) = Self
  BY <1>1, <1>2, <1>5, Seen DEF Verdict, Firmware!Decode, Answerable
<1>6. CASE (f.extended /\ ~f.remote) /\ DestOf(f.id) = Broadcast
  BY <1>1, <1>2, <1>6, Seen DEF Verdict, Firmware!Decode, Answerable
<1> QED
  BY <1>3, <1>4, <1>5, <1>6

-----------------------------------------------------------------------------
(* Every frame                                                             *)

\* On the bus and behind the filter the frame is the one its sender made, and it
\* is behind the filter if it passes.
OnTheBus ==
    /\ at \in {"caller", "bus", "fifo", "filtered"} => asked \in Sent
    /\ at \in {"bus", "fifo", "filtered"} =>
         /\ frame.id = Pack(asked.fields)
         /\ frame.extended = asked.extended /\ frame.remote = asked.remote
         /\ frame.data = asked.data
    /\ at = "fifo" => Passes(Self, frame)
    /\ at = "filtered" => ~Passes(Self, frame)

LEMMA BusInvariance == Spec => []OnTheBus
<1>1. Init => OnTheBus
  BY DEF Init, OnTheBus
<1>2. OnTheBus /\ [Next]_vars => OnTheBus'
  <2> SUFFICES ASSUME OnTheBus, [Next]_vars
               PROVE  OnTheBus'
    OBVIOUS
  <2>1. CASE Put
    BY <2>1 DEF Put, OnTheBus
  <2>2. CASE Filter
    BY <2>2 DEF Filter, OnTheBus, Passes, Matches
  <2>3. CASE Decode \/ Boot \/ Done
    BY <2>3 DEF Decode, Boot, Done, Write, OnTheBus
  <2>4. CASE Latch
    BY <2>4 DEF Latch, OnTheBus
  <2>5. CASE UNCHANGED vars
    BY <2>5 DEF vars, OnTheBus, Passes, Matches
  <2> QED
    BY <2>1, <2>2, <2>3, <2>4, <2>5 DEF Next
<1> QED
  BY <1>1, <1>2, PTL DEF Spec

\* What OnTheBus says about the frame between the bus and the filter's outcome.
LEMMA Carried ==
    ASSUME OnTheBus, at \in {"bus", "fifo", "filtered"}
    PROVE  /\ ParseId(frame.id) = asked.fields /\ ReadId(frame.id) = asked.fields
           /\ TypeOf(frame.id) \in 0..7
           /\ frame.extended \in BOOLEAN /\ frame.remote \in BOOLEAN
<1>1. asked \in [fields : Fields, extended : BOOLEAN, remote : BOOLEAN, data : Seq(0..255)]
  BY WireAssumption DEF OnTheBus
<1>2. asked.fields \in Fields /\ asked.extended \in BOOLEAN /\ asked.remote \in BOOLEAN
  BY <1>1
<1>3. ParseId(frame.id) = asked.fields
  BY <1>2, ParseMake DEF OnTheBus, Pack
<1>4. ParseId(frame.id).type = TypeOf(frame.id)
  BY DEF ParseId
<1>5. asked.fields.type \in 0..7
  BY <1>2, FieldByField DEF Fields
<1>6. ReadId(frame.id) = asked.fields
  BY <1>3, ReadAsParsed
<1> QED
  BY <1>2, <1>3, <1>4, <1>5, <1>6 DEF OnTheBus

\* Type, nodes and number of every frame arrive as they were sent.
THEOREM FieldsAlwaysSurvive == Spec => []FieldsSurvive
<1>1. OnTheBus => FieldsSurvive
  BY Carried DEF FieldsSurvive
<1> QED
  BY <1>1, BusInvariance, PTL

\* The filter takes away nothing the firmware would carry out or answer.
THEOREM NothingIsHidden == Spec => []NothingHidden
<1>1. OnTheBus => NothingHidden
  BY Carried, FilterAgrees DEF OnTheBus, NothingHidden
<1> QED
  BY <1>1, BusInvariance, PTL

\* Nothing that is not for this node reaches the receive queue.
THEOREM NothingForeignPasses == Spec => []NothingForeign
<1>1. OnTheBus => NothingForeign
  BY Carried, FilterAgrees DEF OnTheBus, NothingForeign
<1> QED
  BY <1>1, BusInvariance, PTL

\* All three, as the run of Wire checks them.
THEOREM FramesAlwaysReachTheirNode == Spec => []FramesReachTheirNode
BY FieldsAlwaysSurvive, NothingIsHidden, NothingForeignPasses, PTL DEF FramesReachTheirNode

-----------------------------------------------------------------------------
(* The angle of a start-up                                                 *)

\* Products with a number above zero.
LEMMA Multiple ==
    \A c \in Nat \ {0}, d \in Int : (d >= 1 => c * d >= c) /\ (d <= 0 - 1 => c * d <= 0 - c)
BY Z3

LEMMA Distributes ==
    ASSUME NEW c \in Int, NEW q \in Int, NEW s \in Int
    PROVE  c * (q - s) = c * q - c * s
OBVIOUS

\* A whole turn has two halves.
LEMMA HalfTurn == \E half \in Nat \ {0} : FullTurn \div 2 = half /\ FullTurn = 2 * half
<1>1. PICK half \in Nat : half = FullTurn \div 2
  BY Z3 DEF FullTurn
<1>2. FullTurn = 2 * half /\ half > 0
  BY <1>1, Z3 DEF FullTurn
<1> QED
  BY <1>1, <1>2, Z3

\* What the quotient is of.
LEMMA Quotient ==
    ASSUME NEW a \in Nat, NEW c \in Nat \ {0}
    PROVE  \E q \in Int, r \in 0..c - 1 : q = a \div c /\ a = c * q + r
<1>1. PICK q \in Int : q = a \div c
  OBVIOUS
<1>2. PICK r \in 0..c - 1 : r = a % c
  OBVIOUS
<1>3. a = c * q + r
  BY <1>1, <1>2
<1> QED
  BY <1>1, <1>2, <1>3, Zenon

\* What is nearest to t among the multiples of a turn, half a turn rounding up.
LEMMA Nearest ==
    ASSUME NEW half \in Nat \ {0}, NEW turn, turn = 2 * half, NEW t \in Nat, t <= turn * 256
    PROVE  \E q \in 0..256 : /\ q = (t + half) \div turn
                             /\ turn * q <= t + half /\ t + half < turn * q + turn
<1>1. PICK n \in Nat : n = t + half
  OBVIOUS
<1>2. turn \in Nat \ {0} /\ turn \in Int /\ turn * 256 \in Nat
  OBVIOUS
<1>3. PICK q \in Int, r \in 0..turn - 1 : q = n \div turn /\ n = turn * q + r
  BY <1>1, <1>2, Quotient, Zenon
<1>4. r \in Nat /\ r < turn
  BY <1>2
<1>5. n = turn * q + r /\ turn * q \in Int
  BY <1>2, <1>3
<1>6. q >= 0
  <2>1. CASE q <= 0 - 1
    <3>1. turn * q <= 0 - turn
      BY <1>2, <2>1, Multiple
    <3> QED
      BY <1>1, <1>2, <1>4, <1>5, <3>1
  <2> QED
    BY <1>3, <2>1
<1>7. q <= 256
  <2>1. CASE q - 256 >= 1
    <3>1. PICK k \in Int, d \in Int : k = 256 /\ d = q - k /\ d >= 1
      BY <1>3, <2>1
    <3>2. turn * d >= turn
      BY <1>2, <3>1, Multiple
    <3>3. turn * (q - k) = turn * q - turn * k
      BY <1>2, Distributes
    <3>4. turn * d = turn * q - turn * 256
      BY <3>1, <3>3
    <3> QED
      <4> DEFINE x == turn * q
                 y == turn * 256
      <4>1. x \in Int /\ y \in Nat /\ turn * d = x - y /\ n = x + r
        BY <1>2, <1>3, <1>5, <3>1, <3>4
      <4> HIDE DEF x, y
      <4>2. x - y >= turn /\ n <= y + half
        BY <1>1, <3>2, <4>1 DEF y
      <4> QED
        BY <1>1, <1>2, <1>4, <4>1, <4>2
  <2> QED
    BY <1>3, <2>1
<1>8. turn * q <= t + half /\ t + half < turn * q + turn
  BY <1>1, <1>2, <1>4, <1>5
<1>9. q \in 0..256
  BY <1>3, <1>6, <1>7
<1> QED
  BY <1>1, <1>3, <1>8, <1>9, Zenon

\* phase_state_from_millidegrees() rounds to the nearest state: half a step at
\* most, the other way round where the last half step is state 0 again.
LEMMA Rounded ==
    ASSUME NEW a \in 0..FullTurn
    PROVE  /\ PhaseStateFrom(a) \in PhaseStates
           /\ LET step == PhaseStateFrom(a) * FullTurn
                  turned == a * 256
                  away == IF turned > step THEN turned - step ELSE step - turned
              IN  2 * away <= FullTurn \/ 2 * (256 * FullTurn - away) <= FullTurn
<1>1. PICK half \in Nat \ {0} : FullTurn \div 2 = half /\ FullTurn = 2 * half
  BY HalfTurn
<1>2. PICK turn \in Nat : turn = FullTurn /\ turn = 2 * half
  BY <1>1
<1>3. PICK t \in Nat : t = a * 256
  BY <1>2
<1>4. t <= turn * 256
  BY <1>2, <1>3
<1>5. PICK q \in 0..256 : /\ q = (t + half) \div turn
                          /\ turn * q <= t + half /\ t + half < turn * q + turn
  BY <1>2, <1>4, Nearest
<1>6. PhaseStateFrom(a) = q % 256
  <2>1. PhaseStateFrom(a) = ((t + FullTurn \div 2) \div FullTurn) % 256
    BY <1>3, Zenon DEF PhaseStateFrom
  <2>2. PhaseStateFrom(a) = ((t + half) \div turn) % 256
    BY <1>1, <1>2, <2>1, Zenon
  <2> QED
    BY <1>5, <2>2, Zenon
<1>7. PICK s \in Nat : s = turn * q /\ s = q * turn
  BY <1>2, <1>5
<1>8. CASE q < 256
  <2>1. q % 256 = q /\ q \in PhaseStates
    BY <1>5, <1>8 DEF PhaseStates
  <2>2. PhaseStateFrom(a) = q
    BY <1>6, <2>1, Zenon
  <2>3. 2 * (t - s) <= turn /\ 2 * (s - t) <= turn
    <3>1. s <= t + half /\ t + half < s + turn
      BY <1>5, <1>7
    <3>2. t \in Nat /\ s \in Nat /\ half \in Nat /\ turn = 2 * half
      BY <1>2
    <3>3. t - s <= half /\ s - t <= half
      BY <3>1, <3>2
    <3> QED
      BY <3>2, <3>3
  <2>4. 2 * (IF t > s THEN t - s ELSE s - t) <= turn
    BY <2>3, Zenon
  <2> QED
    BY <1>2, <1>3, <1>7, <2>1, <2>2, <2>4
<1>9. CASE q = 256
  <2>1. PhaseStateFrom(a) = 0 /\ 0 \in PhaseStates
    BY <1>6, <1>9 DEF PhaseStates
  <2>2. 0 * turn = 0 /\ t > 0 /\ t - 0 = t
    BY <1>2, <1>5, <1>9
  <2>3. 2 * (256 * turn - t) <= turn
    BY <1>2, <1>5, <1>9
  <2> QED
    BY <1>2, <1>3, <2>1, <2>2, <2>3
<1> QED
  BY <1>5, <1>8, <1>9

\* A start-up writes the state of its angle.
Steered ==
    Starting =>
        /\ at \in {"boot", "writing", "latched"}
        /\ asked.angle \in Angles
        /\ at # "boot" => state.phase = PhaseStateFrom(asked.angle)

LEMMA SteeredInvariance == Spec => []Steered
<1>1. Init => Steered
  BY WireAssumption DEF Init, Steered, Starting
<1>2. Steered /\ [Next]_vars => Steered'
  <2> SUFFICES ASSUME Steered, [Next]_vars
               PROVE  Steered'
    OBVIOUS
  <2>1. CASE Put \/ Filter \/ Decode
    BY <2>1 DEF Put, Filter, Decode, Write, Steered, Starting
  <2>2. CASE Boot
    BY <2>2 DEF Boot, Write, Steered, Starting
  <2>3. CASE Latch
    BY <2>3 DEF Latch, Steered, Starting
  <2>4. CASE Done
    BY <2>4 DEF Done, Steered, Starting
  <2>5. CASE UNCHANGED vars
    BY <2>5 DEF vars, Steered, Starting
  <2> QED
    BY <2>1, <2>2, <2>3, <2>4, <2>5 DEF Next
<1> QED
  BY <1>1, <1>2, PTL DEF Spec

\* Whatever angle the firmware was built with, it steers to the nearest state.
THEOREM AlwaysNearestPhase == Spec => []NearestPhase
<1>1. Steered => NearestPhase
  <2> SUFFICES ASSUME Steered, at \in {"writing", "latched"}, Starting
               PROVE  NearestPhase
    BY DEF NearestPhase
  <2>1. asked.angle \in 0..FullTurn /\ state.phase = PhaseStateFrom(asked.angle)
    BY WireAssumption, Zenon DEF Steered
  <2> QED
    BY <2>1, Rounded DEF NearestPhase
<1> QED
  BY <1>1, SteeredInvariance, PTL

-----------------------------------------------------------------------------
(* What the devices latch                                                  *)

Believed == [phase : PhaseStates, atten : 0..MaxDb]

VgaWord(db) == [device |-> "VGA", command |-> VgaCommand(db)]
PhaseWord(s) == [device |-> "PHASE", command |-> PhaseCommand(ControlWord(s), UnitAddress)]
Steering(s) == [control |-> ControlWord(s), unit |-> UnitAddress]

\* What the two encoders make of an operation.
LEMMA EncodeIs ==
    ASSUME NEW v
    PROVE  /\ Encode(Firmware!SetVga(v)) = VgaWord(v)
           /\ Encode(Firmware!SetPhase(v)) = PhaseWord(v)
BY DEF Encode, Firmware!SetVga, Firmware!SetPhase, VgaWord, PhaseWord

\* What the check of the attenuation leaves.
LEMMA UpTo == \A b \in 0..255, m \in Nat : ~(b > m) => b \in 0..m
OBVIOUS

\* A command the decoder accepts sets an attenuation, a phase, or both; its plan
\* has the shape the firmware gives it, and ends at the state it results in.
LEMMA Planned ==
    ASSUME NEW f, f.data \in Seq(0..255), Firmware!Decode(f) = "OK",
           f.type \in Firmware!StateChangingTypes,
           NEW s \in Believed, NEW t, t = Firmware!ResultingState(f, s)
    PROVE  /\ t \in Believed
           /\ \/ Firmware!PlanOf(f, s) = <<Firmware!SetVga(t.atten)>> /\ t.phase = s.phase
              \/ Firmware!PlanOf(f, s) = <<Firmware!SetPhase(t.phase)>> /\ t.atten = s.atten
              \/ /\ Firmware!PlanOf(f, s) = <<Firmware!SetVga(MaxDb), Firmware!SetPhase(t.phase)>>
                 /\ t.atten = MaxDb
              \/ Firmware!PlanOf(f, s)
                   = <<Firmware!SetVga(MaxDb), Firmware!SetPhase(t.phase), Firmware!SetVga(t.atten)>>
<1>0. /\ s.phase \in PhaseStates /\ s.atten \in 0..MaxDb
      /\ s = [phase |-> s.phase, atten |-> s.atten]
      /\ MaxDb \in 0..MaxDb /\ 0 \in PhaseStates /\ MaxDb \in Nat
  BY DEF Believed, MaxDb, PhaseStates
<1>1. Len(f.data) = Firmware!RequiredLength(f.type)
  BY DEF Firmware!Decode
<1>2. \A i \in 1..Len(f.data) : f.data[i] \in 0..255
  <2>1. PICK d \in Seq(0..255) : d = f.data
    OBVIOUS
  <2>2. \A i \in 1..Len(d) : d[i] \in 0..255
    BY ElementOfSeq
  <2> QED
    BY <2>1, <2>2
<1>3. CASE f.type = "SET_VGA"
  <2>1. Len(f.data) = 1
    BY <1>1, <1>3 DEF Firmware!RequiredLength
  <2>2. f.data[1] \in 0..255 /\ ~(f.data[1] > MaxDb)
    <3>1. ~(Firmware!AttenuationOf(f) > MaxDb)
      BY <1>3 DEF Firmware!Decode
    <3> QED
      BY <1>2, <1>3, <2>1, <3>1 DEF Firmware!AttenuationOf
  <2>3. PICK a \in 0..MaxDb : a = f.data[1]
    BY <1>0, <2>2, UpTo
  <2>4. t = [phase |-> s.phase, atten |-> a]
    BY <1>0, <1>3, <2>3 DEF Firmware!ResultingState, Firmware!AttenuationOf
  <2>5. Firmware!PlanOf(f, s) = <<Firmware!SetVga(a)>>
    BY <1>3, <2>3 DEF Firmware!PlanOf, Firmware!AttenuationOf
  <2> QED
    BY <1>0, <2>4, <2>5 DEF Believed
<1>4. CASE f.type = "SET_PHASE"
  <2>1. Len(f.data) = 1
    BY <1>1, <1>4 DEF Firmware!RequiredLength
  <2>2. PICK p \in PhaseStates : p = f.data[1]
    BY <1>2, <2>1 DEF PhaseStates
  <2>3. t = [phase |-> p, atten |-> s.atten]
    BY <1>0, <1>4, <2>2 DEF Firmware!ResultingState, Firmware!PhaseOf
  <2>4. Firmware!PlanOf(f, s) = Firmware!PhasePlan(p, s)
    BY <1>4, <2>2 DEF Firmware!PlanOf, Firmware!PhaseOf
  <2> QED
    BY <1>0, <2>3, <2>4 DEF Believed, Firmware!PhasePlan
<1>5. CASE f.type = "SET_COMBINED"
  <2>1. Len(f.data) = 2
    BY <1>1, <1>5 DEF Firmware!RequiredLength
  <2>2. f.data[1] \in PhaseStates /\ f.data[2] \in 0..255 /\ ~(f.data[2] > MaxDb)
    <3>1. ~(Firmware!AttenuationOf(f) > MaxDb)
      BY <1>5 DEF Firmware!Decode
    <3>2. 1 \in 1..2 /\ 2 \in 1..2
      OBVIOUS
    <3>3. f.data[1] \in PhaseStates /\ f.data[2] \in 0..255
      BY <1>2, <2>1, <3>2 DEF PhaseStates
    <3> QED
      BY <1>5, <3>1, <3>3 DEF Firmware!AttenuationOf
  <2>3. PICK p \in PhaseStates, a \in 0..MaxDb : p = f.data[1] /\ a = f.data[2]
    BY <1>0, <2>2, UpTo
  <2>4. t = [phase |-> p, atten |-> a]
    BY <1>5, <2>3 DEF Firmware!ResultingState, Firmware!PhaseOf, Firmware!AttenuationOf
  <2>5. Firmware!PlanOf(f, s) = Firmware!CombinedPlan(p, a)
    BY <1>5, <2>3 DEF Firmware!PlanOf, Firmware!PhaseOf, Firmware!AttenuationOf
  <2> QED
    BY <1>0, <2>4, <2>5 DEF Believed, Firmware!CombinedPlan
<1>6. CASE f.type = "ENTER_SAFE"
  <2>1. t = [phase |-> 0, atten |-> MaxDb]
    BY <1>6 DEF Firmware!ResultingState, Firmware!SafePhase
  <2>2. Firmware!PlanOf(f, s) = <<Firmware!SetVga(MaxDb), Firmware!SetPhase(0)>>
    BY <1>6 DEF Firmware!PlanOf, Firmware!SafePhase
  <2> QED
    BY <1>0, <2>1, <2>2 DEF Believed
<1> QED
  BY <1>3, <1>4, <1>5, <1>6 DEF Firmware!StateChangingTypes, Firmware!SettingTypes

\* What is left of a plan takes the devices to the state that is believed.
Leads ==
    \/ plan = <<>> /\ phase = Steering(state.phase) /\ atten = state.atten
    \/ plan = <<VgaWord(state.atten)>> /\ phase = Steering(state.phase)
    \/ plan = <<PhaseWord(state.phase)>> /\ atten = state.atten
    \/ plan = <<PhaseWord(state.phase), VgaWord(state.atten)>>
    \/ plan = <<VgaWord(MaxDb), PhaseWord(state.phase)>> /\ state.atten = MaxDb
    \/ plan = <<VgaWord(MaxDb), PhaseWord(state.phase), VgaWord(state.atten)>>

Latching ==
    /\ state \in Believed
    /\ at = "boot" => asked.angle \in Angles
    /\ Leads
    /\ at # "writing" => plan = <<>>

\* The encoded words of each shape of plan.
LEMMA Words ==
    ASSUME NEW ops, NEW words, words = [i \in DOMAIN ops |-> Encode(ops[i])]
    PROVE  /\ \A u : ops = <<u>> => words = <<Encode(u)>>
           /\ \A u, v : ops = <<u, v>> => words = <<Encode(u), Encode(v)>>
           /\ \A u, v, w : ops = <<u, v, w>> => words = <<Encode(u), Encode(v), Encode(w)>>
OBVIOUS

\* Decoding and start-up make a plan that leads to the state they believe in.
LEMMA WriteStep ==
    ASSUME Latching, at = "fifo" => frame.data \in Seq(0..255), Decode \/ Boot
    PROVE  Latching'
<1>0. plan = <<>> /\ phase = Steering(state.phase) /\ atten = state.atten /\ state \in Believed
  <2>1. plan = <<>>
    BY DEF Latching, Decode, Boot
  <2> QED
    BY <2>1 DEF Latching, Leads
<1>1. CASE Decode /\ at' = "writing"
  <2>1. PICK f, t : f = Read(frame) /\ t = Firmware!ResultingState(f, state)
    OBVIOUS
  <2>2. /\ Firmware!Decode(f) = "OK" /\ f.type \in Firmware!StateChangingTypes
        /\ Write(Firmware!PlanOf(f, state)) /\ state' = t
    BY <1>1, <2>1 DEF Decode, Verdict
  <2>3. f.data \in Seq(0..255)
    BY <1>1, <2>1 DEF Decode, Read
  <2>4. PICK ops : ops = Firmware!PlanOf(f, state)
    OBVIOUS
  <2>5. /\ t \in Believed
        /\ \/ ops = <<Firmware!SetVga(t.atten)>> /\ t.phase = state.phase
           \/ ops = <<Firmware!SetPhase(t.phase)>> /\ t.atten = state.atten
           \/ /\ ops = <<Firmware!SetVga(MaxDb), Firmware!SetPhase(t.phase)>>
              /\ t.atten = MaxDb
           \/ ops = <<Firmware!SetVga(MaxDb), Firmware!SetPhase(t.phase), Firmware!SetVga(t.atten)>>
    BY <1>0, <2>1, <2>2, <2>3, <2>4, Planned
  <2>6. /\ plan' = [i \in DOMAIN ops |-> Encode(ops[i])]
        /\ phase' = phase /\ atten' = atten
    BY <2>2, <2>4 DEF Write
  <2>7. Leads'
    <3>1. CASE ops = <<Firmware!SetVga(t.atten)>> /\ t.phase = state.phase
      <4>1. plan' = <<VgaWord(t.atten)>>
        BY <2>6, <3>1, Words, EncodeIs
      <4> QED
        BY <1>0, <2>2, <2>6, <3>1, <4>1 DEF Leads
    <3>2. CASE ops = <<Firmware!SetPhase(t.phase)>> /\ t.atten = state.atten
      <4>1. plan' = <<PhaseWord(t.phase)>>
        BY <2>6, <3>2, Words, EncodeIs
      <4> QED
        BY <1>0, <2>2, <2>6, <3>2, <4>1 DEF Leads
    <3>3. CASE /\ ops = <<Firmware!SetVga(MaxDb), Firmware!SetPhase(t.phase)>>
               /\ t.atten = MaxDb
      <4>1. plan' = <<VgaWord(MaxDb), PhaseWord(t.phase)>>
        BY <2>6, <3>3, Words, EncodeIs
      <4> QED
        BY <2>2, <3>3, <4>1 DEF Leads
    <3>4. CASE ops = <<Firmware!SetVga(MaxDb), Firmware!SetPhase(t.phase), Firmware!SetVga(t.atten)>>
      <4>1. plan' = <<VgaWord(MaxDb), PhaseWord(t.phase), VgaWord(t.atten)>>
        BY <2>6, <3>4, Words, EncodeIs
      <4> QED
        BY <2>2, <4>1 DEF Leads
    <3> QED
      BY <2>5, <3>1, <3>2, <3>3, <3>4
  <2> QED
    BY <1>1, <2>2, <2>5, <2>7 DEF Latching
<1>2. CASE Decode /\ at' # "writing"
  BY <1>0, <1>2 DEF Decode, Write, Latching, Leads
<1>3. CASE Boot
  <2>1. PICK p : p = PhaseStateFrom(asked.angle)
    OBVIOUS
  <2>2. p \in PhaseStates
    BY <1>3, <2>1, Rounded, WireAssumption DEF Boot, Latching
  <2>3. /\ plan' = [i \in DOMAIN Firmware!StartupPlan(p) |-> Encode(Firmware!StartupPlan(p)[i])]
        /\ state' = [phase |-> p, atten |-> MaxDb] /\ at' = "writing"
    BY <1>3, <2>1 DEF Boot, Write
  <2>4. plan' = <<VgaWord(MaxDb), PhaseWord(p)>>
    <3>1. Firmware!StartupPlan(p) = <<Firmware!SetVga(MaxDb), Firmware!SetPhase(p)>>
      BY DEF Firmware!StartupPlan
    <3> QED
      BY <2>3, <3>1, Words, EncodeIs
  <2>5. MaxDb \in 0..MaxDb
    BY DEF MaxDb
  <2> QED
    BY <2>2, <2>3, <2>4, <2>5 DEF Latching, Leads, Believed
<1> QED
  BY <1>1, <1>2, <1>3

\* The lists of words and what Latch takes from them.
LEMMA Taken ==
    \A u, v, w : /\ Head(<<u>>) = u /\ Tail(<<u>>) = <<>>
                 /\ Head(<<u, v>>) = u /\ Tail(<<u, v>>) = <<v>>
                 /\ Head(<<u, v, w>>) = u /\ Tail(<<u, v, w>>) = <<v, w>>
OBVIOUS

\* One word brings the devices one write closer, if the words agree.
LEMMA LatchStep ==
    ASSUME EncodingsAgree, Latching, Latch
    PROVE  Latching'
<1>1. /\ at = "writing" /\ at' = "writing" /\ state' = state /\ state \in Believed
      /\ plan # <<>> /\ plan' = Tail(plan)
  BY DEF Latch, Latching
<1>2. /\ state.atten \in 0..MaxDb /\ state.phase \in PhaseStates /\ MaxDb \in 0..MaxDb
  BY <1>1 DEF Believed, MaxDb
<1>3. ASSUME NEW a \in 0..MaxDb, Head(plan) = VgaWord(a)
      PROVE  atten' = a /\ phase' = phase
  <2>1. VgaRead(VgaLine(VgaCommand(a))) = a
    BY DEF EncodingsAgree
  <2> QED
    BY <1>3, <2>1 DEF Latch, VgaWord
<1>4. ASSUME Head(plan) = PhaseWord(state.phase)
      PROVE  phase' = Steering(state.phase) /\ atten' = atten
  <2>1. PhaseRead(PhaseLine(PhaseCommand(ControlWord(state.phase), UnitAddress)))
          = Steering(state.phase)
    BY <1>2 DEF EncodingsAgree, Steering
  <2> QED
    BY <1>4, <2>1 DEF Latch, PhaseWord
<1>5. Leads'
  <2>1. CASE plan = <<VgaWord(state.atten)>> /\ phase = Steering(state.phase)
    BY <1>1, <1>2, <1>3, <2>1, Taken DEF Leads
  <2>2. CASE plan = <<PhaseWord(state.phase)>> /\ atten = state.atten
    BY <1>1, <1>4, <2>2, Taken DEF Leads
  <2>3. CASE plan = <<PhaseWord(state.phase), VgaWord(state.atten)>>
    BY <1>1, <1>4, <2>3, Taken DEF Leads
  <2>4. CASE plan = <<VgaWord(MaxDb), PhaseWord(state.phase)>> /\ state.atten = MaxDb
    BY <1>1, <1>2, <1>3, <2>4, Taken DEF Leads
  <2>5. CASE plan = <<VgaWord(MaxDb), PhaseWord(state.phase), VgaWord(state.atten)>>
    BY <1>1, <2>5, Taken DEF Leads
  <2> QED
    BY <1>1, <2>1, <2>2, <2>3, <2>4, <2>5 DEF Latching, Leads
<1> QED
  BY <1>1, <1>5 DEF Latching

\* The data of a frame in the receive queue are bytes.
LEMMA QueuedData ==
    ASSUME OnTheBus
    PROVE  at = "fifo" => frame.data \in Seq(0..255)
<1> SUFFICES ASSUME at = "fifo" PROVE frame.data \in Seq(0..255)
  OBVIOUS
<1>1. asked \in [fields : Fields, extended : BOOLEAN, remote : BOOLEAN, data : Seq(0..255)]
  BY WireAssumption DEF OnTheBus
<1> QED
  BY <1>1 DEF OnTheBus

\* For every frame, node number and start-up angle: if the words, one by one, are
\* read as they were meant, which the run evaluates for all of them, then the
\* devices have latched what was asked for when a plan is over (rf/plan.c:8-46).
THEOREM DevicesAlwaysAsAsked == EncodingsAgree => (Spec => []DevicesAsAsked)
<1> SUFFICES ASSUME EncodingsAgree PROVE Spec => []DevicesAsAsked
  OBVIOUS
<1>1. Init => Latching
  <2> SUFFICES ASSUME Init PROVE Latching
    OBVIOUS
  <2>1. PhaseStateFrom(205300) \in PhaseStates
    <3>1. PICK a : a = 205300
      OBVIOUS
    <3>2. a \in 0..FullTurn
      <4>1. a \in Nat
        BY <3>1, SMT
      <4>2. FullTurn \in Nat /\ 205300 <= FullTurn
        BY SMT DEF FullTurn
      <4> QED
        BY <3>1, <4>1, <4>2, SMT
    <3>3. PhaseStateFrom(a) \in PhaseStates
      BY <3>2, Rounded
    <3> QED
      BY <3>1, <3>3, SMT
  <2>2. 0 \in PhaseStates /\ MaxDb \in 0..MaxDb /\ 0 \in 0..MaxDb
    BY DEF PhaseStates, MaxDb
  <2>3. Safe \in Believed /\ Operational \in Believed
    BY <2>1, <2>2 DEF Safe, Operational, Believed
  <2>4. state \in Believed
    BY <2>3 DEF Init
  <2> QED
    BY <2>4 DEF Init, Latching, Leads, Steering
<1>2. OnTheBus /\ Latching /\ [Next]_vars => Latching'
  <2> SUFFICES ASSUME OnTheBus, Latching, [Next]_vars
               PROVE  Latching'
    OBVIOUS
  <2>1. CASE Put \/ Filter \/ Done
    BY <2>1 DEF Put, Filter, Done, Latching, Leads
  <2>2. CASE Decode \/ Boot
    BY <2>2, QueuedData, WriteStep
  <2>3. CASE Latch
    BY <2>3, LatchStep
  <2>4. CASE UNCHANGED vars
    BY <2>4 DEF vars, Latching, Leads
  <2> QED
    BY <2>1, <2>2, <2>3, <2>4 DEF Next
<1>3. Latching => DevicesAsAsked
  <2> SUFFICES ASSUME Latching PROVE DevicesAsAsked
    OBVIOUS
  <2>1. state.atten \in 0..MaxDb /\ state.phase \in PhaseStates /\ MaxDb \in 0..MaxDb
    BY DEF Latching, Believed, MaxDb
  <2>2. \A i \in DOMAIN plan :
          \/ \E a \in 0..MaxDb : plan[i] = VgaWord(a)
          \/ plan[i] = PhaseWord(state.phase)
    BY <2>1 DEF Latching, Leads
  <2>3. /\ \A a \in 0..MaxDb : VgaCommand(a) < 256
        /\ PhaseCommand(ControlWord(state.phase), UnitAddress) < 8192
    BY <2>1 DEF EncodingsAgree
  <2>4. \A i \in DOMAIN plan :
          plan[i].command < IF plan[i].device = "VGA" THEN 256 ELSE 8192
    BY <2>2, <2>3 DEF VgaWord, PhaseWord
  <2>5. at = "latched" => /\ phase = [control |-> ControlWord(state.phase), unit |-> UnitAddress]
                          /\ atten = state.atten
    BY DEF Latching, Leads, Steering
  <2> QED
    BY <2>4, <2>5 DEF DevicesAsAsked
<1> QED
  BY <1>1, <1>2, <1>3, BusInvariance, PTL DEF Spec
=============================================================================
