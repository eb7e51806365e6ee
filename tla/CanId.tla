------------------------------- MODULE CanId --------------------------------
(***************************************************************************)
(* The 29 bits of a CAN identifier, packed and unpacked once in C and once *)
(* in Python, and the two acceptance filters of the firmware.  Shifts and  *)
(* masks of whole fields are quotients and remainders: type in bits        *)
(* 28..26, destination in 25..21, source in 20..16, sequence in 15..0.     *)
(***************************************************************************)
EXTENDS Naturals

IdMax == 536870911              \* CAN_EXTENDED_ID_MAX
SeqMax == 65535                 \* CAN_ID_SEQUENCE_MASK

EnterSafe == 0                  \* CAN_MESSAGE_ENTER_SAFE
Controller == 0                 \* CAN_NODE_CONTROLLER
Broadcast == 31                 \* CAN_NODE_BROADCAST

Fields == [type : 0..7, dest : 0..31, source : 0..31, seq : 0..SeqMax]

\* The firmware: can_protocol_make_id() and can_protocol_parse_id().
MakeId(m) == m.type * 67108864 + m.dest * 2097152 + m.source * 65536 + m.seq

TypeOf(id) == (id \div 67108864) % 8

DestOf(id) == (id \div 2097152) % 32
SourceOf(id) == (id \div 65536) % 32
SequenceOf(id) == id % 65536

ParseId(id) == [type |-> TypeOf(id), dest |-> DestOf(id), source |-> SourceOf(id), seq |-> SequenceOf(id)]

\* Mutant: the mask of the sequence is a bit short.
MutantBuildId(m) == m.type * 67108864 + m.dest * 2097152 + m.source * 65536 + (m.seq % 32768)

\* The Pi: build_id() and parse_id().
BuildId(m) == m.type * 67108864 + m.dest * 2097152 + m.source * 65536 + (m.seq % 65536)

ReadId(id) ==
    [type |-> (id \div 67108864) % 8,
     dest |-> (id \div 2097152) % 32,
     source |-> (id \div 65536) % 32,
     seq |-> id % 65536]

-----------------------------------------------------------------------------
(* A filter bank compares some fields with those of an identifier, and the *)
(* two bits that make a frame an extended data frame.                      *)

UnicastBank(self) ==
    [compares |-> {"dest", "source"},
     id |-> MakeId([type |-> 0, dest |-> self, source |-> Controller, seq |-> 0])]

\* Mutant: the broadcast bank is set to the highest node.
MutantBroadcastBank ==
    [compares |-> {"type", "dest", "source"},
     id |-> MakeId([type |-> EnterSafe, dest |-> 30, source |-> Controller, seq |-> 0])]

BroadcastBank ==
    [compares |-> {"type", "dest", "source"},
     id |-> MakeId([type |-> EnterSafe, dest |-> Broadcast, source |-> Controller, seq |-> 0])]

Matches(bank, id) == \A field \in bank.compares : ParseId(id)[field] = ParseId(bank.id)[field]

Passes(self, f) ==
    /\ f.extended /\ ~f.remote
    /\ Matches(UnicastBank(self), f.id) \/ Matches(BroadcastBank, f.id)
=============================================================================
