------------------------------ MODULE MCNfaRw -------------------------------
(***************************************************************************)
(* NfaRw with one tag of each kind.                                        *)
(***************************************************************************)
EXTENDS NfaRw

Old(n) == [i \in 1..n |-> 10 + i]

(* A memory of n bytes that begins with the given ones.                    *)
Memory(n, bytes) == [a \in 0..(n - 1) |-> IF a < Len(bytes) THEN bytes[a + 1] ELSE 0]

T1tInits ==
    [hr \in {17, 18} |->
        IF hr = 17 THEN [dynamic |-> FALSE, tms |-> 14, lock |-> <<0, 0, 0>>, mem |-> <<0, 0>>]
        ELSE [dynamic |-> TRUE, tms |-> 17, lock |-> <<242, 2, 51>>, mem |-> <<240, 2, 3>>]]

T1tHeader(tms) == [i \in 1..8 |-> 0] \o <<225, 16, tms, 0>>

T1tStaticTag == T1tTag(17, Memory(120, T1tHeader(14) \o <<3, 3>> \o Old(3) \o <<254>>))
T1tBlankTag == T1tTag(17, Memory(120, <<>>))
T1tDynamicTag ==
    T1tTag(18, Memory(144, T1tHeader(17) \o <<1, 3, 242, 2, 51, 2, 3, 240, 2, 3, 3, 3>>
                             \o Old(3) \o <<254>>))

T2tInits ==
    [mid |-> 4, multi |-> FALSE, calc |-> FALSE, otp |-> FALSE, version |-> 1, version_block |-> 5,
     tms |-> 6, blpb |-> 8, lock |-> <<>>]

T2tHeader(tms) == [i \in 1..12 |-> 0] \o <<225, 16, tms, 0>>

T2tStaticTag == T2tTag(Memory(64, T2tHeader(6) \o <<3, 3>> \o Old(3) \o <<254>>))
T2tLockTlvTag == T2tTag(Memory(80, T2tHeader(7) \o <<1, 3, 160, 16, 68, 3, 3>> \o Old(3) \o <<254>>))
T2tMemTlvTag ==
    T2tTag(Memory(64, T2tHeader(6) \o <<2, 3, 48, 2, 3, 3, 5, 11, 0, 0>> \o Old(4) \o <<254>>))
T2tBlankTag == T2tTag(Memory(64, <<4>>))

T3tMc == [sys_op |-> TRUE, locked |-> FALSE]
T3tSmallTag == T3tTag(T3tAttrib(2, 1, 3, "OFF", "RW", 17), [i \in 0..47 |-> 11 + i], T3tMc)

T4tCard == T4tTag(2, T4tCc(2, 59, 52, 40, "ALL"),
                  [i \in 0..39 |-> IF i = 0 THEN 0 ELSE IF i = 1 THEN 3 ELSE 9 + i],
                  [generation |-> "EV1", size |-> 40])
T4tOldCard == [T4tCard EXCEPT !.app = 1, !.cc.version = 1]
T4tBlankCard == [T4tCard EXCEPT !.app = 0]

I93Flags == {"DSFID", "AFI", "MEM_SIZE", "IC_REF"}
I93Mem(bytes) == Memory(32, <<225, 64, 4, 0>> \o bytes)
I93SliTag == I93Tag(I93Uid("NXP", "SLI"), I93IcRef("SLI", FALSE), I93Flags, 4,
                    I93Mem(<<3, 3>> \o Old(3) \o <<254>>), {}, "PLAIN")
I93BlankTag == [I93SliTag EXCEPT !.mem = Memory(32, <<>>)]

Tags(name) ==
    CASE name = "t1t static" -> T1tStaticTag
      [] name = "t1t blank" -> T1tBlankTag
      [] name = "t1t dynamic" -> T1tDynamicTag
      [] name = "t2t static" -> T2tStaticTag
      [] name = "t2t lock tlv" -> T2tLockTlvTag
      [] name = "t2t mem tlv" -> T2tMemTlvTag
      [] name = "t2t blank" -> T2tBlankTag
      [] name = "t3t" -> T3tSmallTag
      [] name = "t4t" -> T4tCard
      [] name = "t4t old" -> T4tOldCard
      [] name = "t4t blank" -> T4tBlankCard
      [] name = "sli" -> I93SliTag
      [] OTHER -> I93BlankTag

SystemCodes(name) == IF name = "t3t" THEN {"FELICA_LITE", "NDEF"} ELSE {}

Req(op, arg) == [op |-> op, arg |-> arg]

Ndef == {Req("DETECT_NDEF", 0), Req("READ_NDEF", 0), Req("WRITE_NDEF", 5)}
Ro == {Req("SET_TAG_RO", 0)}

(* Two faults use up the one retry of a command (RW_MAX_RETRIES = 1); the  *)
(* environments with one fault are those where the second one leads the    *)
(* code to something README section 5 describes.                           *)
Reader(name, protocol, requests) ==
    [tag |-> name, protocol |-> protocol, requests |-> <<requests, requests>>, pending |-> 1,
     faults |-> IF protocol = "T1T" THEN 1 ELSE 2,
     activations |-> IF protocol = "T1T" THEN 1 ELSE 2, auto |-> FALSE, excl |-> FALSE, nci2 |-> FALSE]

InOrder(reader, requests) == [reader EXCEPT !.requests = requests]
Auto(reader) == [reader EXCEPT !.auto = TRUE]
Once(reader) == [reader EXCEPT !.activations = 1]
OneFault(reader) == [reader EXCEPT !.faults = 1]

Detect == {Req("DETECT_NDEF", 0)}
HardRo == {Req("SET_TAG_RO", 1)}
Format == {Req("FORMAT_TAG", 0), Req("WRITE_NDEF", 5)}
Presence == {Req("PRESENCE_CHECK", 0), Req("PRESENCE_CHECK", 2)}

T1tBlocks == {Req("T1T_RALL", 0), Req("T1T_READ", 3), Req("T1T_WRITE", 9),
              Req("DETECT_LOCK_TLV", 0), Req("DETECT_MEM_TLV", 0)}
T1tDynamicBlocks == {Req("T1T_RSEG", 0), Req("T1T_READ8", 9), Req("T1T_WRITE8", 12),
                     Req("DETECT_MEM_TLV", 0)}
T2tBlocks == {Req("T2T_READ", 4), Req("T2T_READ", 100), Req("T2T_WRITE", 10),
              Req("DETECT_MEM_TLV", 0)}
T2tSectors == {Req("T2T_READ", 4), Req("T2T_SECTOR_SELECT", 1)}
I93Blocks == {Req("I93_INVENTORY", 0), Req("I93_STAY_QUIET", 0), Req("I93_READ_SINGLE_BLOCK", 1),
              Req("I93_WRITE_SINGLE_BLOCK", 6), Req("I93_LOCK_BLOCK", 6),
              Req("I93_READ_MULTI_BLOCK", 0), Req("I93_SELECT", 0), Req("I93_GET_SYS_INFO", 0),
              Req("I93_RESET_TO_READY", 0), Req("I93_WRITE_AFI", 1), Req("I93_LOCK_AFI", 0),
              Req("I93_WRITE_DSFID", 1), Req("I93_LOCK_DSFID", 0),
              Req("I93_GET_MULTI_BLOCK_STATUS", 0)}

T1tEnvironments ==
    {Reader("t1t static", "T1T", Ndef \union Ro),
     Reader("t1t static", "T1T", T1tBlocks),
     Reader("t1t blank", "T1T", Ndef \union Format),
     Reader("t1t dynamic", "T1T", Ndef),
     Reader("t1t dynamic", "T1T", T1tDynamicBlocks),
     InOrder(Reader("t1t dynamic", "T1T", {}), <<Detect, HardRo, Ndef>>)}

T2tEnvironments ==
    {Reader("t2t static", "T2T", Ndef),
     Reader("t2t static", "T2T", T2tBlocks),
     OneFault(Reader("t2t static", "T2T", T2tSectors)),
     Once(InOrder(Reader("t2t static", "T2T", {}), <<Detect, Ro, Ndef>>)),
     Once(InOrder(Reader("t2t lock tlv", "T2T", {}), <<Detect, HardRo, Ndef>>)),
     Reader("t2t lock tlv", "T2T", Ndef \union {Req("DETECT_LOCK_TLV", 0)}),
     Reader("t2t mem tlv", "T2T", Ndef),
     Reader("t2t blank", "T2T", Format)}

OtherEnvironments ==
    {Reader("t3t", "T3T", Ndef),
     OneFault(Reader("t3t", "T3T", Ndef \union Ro)),
     Reader("t3t", "T3T", Format),
     OneFault(InOrder(Reader("t3t", "T3T", {}), <<Detect, HardRo, Ndef>>)),
     Reader("t4t", "T4T", Ndef),
     InOrder(Reader("t4t", "T4T", {}), <<Detect, Ro, Ndef>>),
     Reader("t4t old", "T4T", Ndef),
     Reader("t4t blank", "T4T", {Req("FORMAT_TAG", 0), Req("READ_NDEF", 0)}),
     Reader("sli", "T5T", Ndef),
     InOrder(Reader("sli", "T5T", {}), <<Detect, Ro, Ndef>>),
     Reader("sli", "T5T", I93Blocks),
     Reader("sli blank", "T5T", Format)}

(* Checks of the presence, of the application and automatic ones.          *)
PresenceEnvironments ==
    {Reader("t1t static", "T1T", Presence), Reader("t2t static", "T2T", Presence),
     Reader("t3t", "T3T", Presence), Reader("sli", "T5T", Presence),
     [Reader("t4t", "T4T", Presence) EXCEPT !.nci2 = TRUE],
     Reader("t4t", "T4T", {Req("SEND_RAW_FRAME", 0)})}
      \union {Auto(InOrder(Reader(t[1], t[2], {}), <<Ndef>>)) :
                 t \in {<<"t1t static", "T1T">>, <<"t2t static", "T2T">>, <<"t3t", "T3T">>,
                        <<"t4t", "T4T">>, <<"sli", "T5T">>}}

(* Blocks of a T3T are read and written.                                   *)
T3tBlockEnvironments ==
    {Reader("t3t", "T3T", {Req("T3T_READ", 1), Req("T3T_WRITE", 1)})}

RwEnvironments ==
    T1tEnvironments \union T2tEnvironments \union OtherEnvironments \union PresenceEnvironments
=============================================================================
