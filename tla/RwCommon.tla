------------------------------ MODULE RwCommon ------------------------------
(***************************************************************************)
(* What the reader/writer layers of the five tag types share (rw_main.cc,  *)
(* tags_int.cc): the part of the host below NFA RW, as one record, and the *)
(* messages between it, the tag and NFA RW.                                *)
(*                                                                         *)
(* The record h has                                                        *)
(*   t      rw_cb.tcb of the activated tag: RwT1t, RwT2t, ... say how      *)
(*   retry  rw_cb.cur_retry                                                *)
(*   timer  the response timer of the tag type runs                        *)
(*   air    the commands on their way to the tag, normally one at most     *)
(*   evt    the events the tag type reports in this step, for NFA RW       *)
(*   ret    what the last RW_ function returned                            *)
(*   buf    the buffer an NDEF message is read into                        *)
(*   new    the NDEF message to be written                                 *)
(* A handler is an operator from such a record to the next one.  A step of *)
(* the host is one message, handled to the end: NFA RW consumes evt in it. *)
(*                                                                         *)
(* Bytes are numbers, a block is a function from 0 on.  NFC_SendData and   *)
(* GKI_getpoolbuf do not fail; statistics and logging are left out.        *)
(***************************************************************************)
EXTENDS Integers, Sequences, FiniteSets
LOCAL INSTANCE SequencesExt

CONSTANTS
    RW_MAX_RETRIES,    \* retransmissions of one command
    LONG_NDEF_MIN_LEN  \* shortest message with a length field of three bytes

ASSUME RwAssumption == RW_MAX_RETRIES \in Nat /\ LONG_NDEF_MIN_LEN \in 4..255

Byte == 0..255

NULL_TLV == 0
LOCK_CTRL_TLV == 1
MEM_CTRL_TLV == 2
NDEF_TLV == 3
PROPRIETARY_TLV == 253
TERMINATOR_TLV == 254
LONG_LEN_BYTE0 == 255

Status == {"OK", "FAILED", "REJECTED", "TIMEOUT", "BUSY", "REFUSED", "NOT_INITIALIZED",
           "CONTINUE", "MSG_CORRUPTED", "BAD_RESP", "CMD_NOT_CMPLTD", "BAD_LENGTH",
           "BUFFER_FULL"}

NdefFlag == {"READ_ONLY", "FORMATED", "SUPPORTED", "UNKNOWN", "FORMATABLE", "SOFT_LOCKABLE",
             "HARD_LOCKABLE", "OTP"}
-----------------------------------------------------------------------------
(* Memory.                                                                 *)

NoData == <<>>

(* n bytes of f from o on, renumbered.                                     *)
Slice(f, o, n) == [i \in 0..(n - 1) |-> f[o + i]]

(* f with the bytes of d from o on.                                        *)
Overlay(f, o, d) == [i \in DOMAIN f |-> IF (i - o) \in DOMAIN d THEN d[i - o] ELSE f[i]]

Zeros(n) == [i \in 0..(n - 1) |-> 0]

Size(f) == Cardinality(DOMAIN f)

Ceil(a, b) == (a + b - 1) \div b

IsLong(len) == len >= LONG_NDEF_MIN_LEN

(* Bytes of the length field of a TLV with a message of this length.       *)
LenFieldLen(len) == IF IsLong(len) THEN 3 ELSE 1

(* The field, and the field of the same size that says the tag is empty.   *)
LenField(len) ==
    IF IsLong(len) THEN [i \in 0..2 |-> <<LONG_LEN_BYTE0, len \div 256, len % 256>>[i + 1]]
    ELSE [i \in {0} |-> len]

(* A loop over 0 .. n-1 in order, as the code has it: Op(state, i).  The   *)
(* state after the first half is bound, not passed, so that TLC has its    *)
(* value and not an expression.                                            *)
RECURSIVE LoopFrom(_, _, _, _)
LoopFrom(Op(_, _), state, i, n) ==
    CASE n <= i -> state
      [] n = i + 1 -> Op(state, i)
      [] OTHER -> LET half == (i + n) \div 2
                  IN  CHOOSE last \in {LoopFrom(Op, s, half, n) : s \in {LoopFrom(Op, state, i, half)}} :
                          TRUE

Loop(Op(_, _), start, n) == LoopFrom(Op, start, 0, n)

(* Bit i of a byte.                                                        *)
Bit(byte, i) == (byte \div 2^i) % 2 = 1

(* The lowest n bits of a byte set.                                        *)
SetLowBits(byte, n) == (byte \div 2^n) * 2^n + 2^n - 1

FirstOf(S) == CHOOSE i \in S : \A j \in S : i <= j

HighestOf(S) == CHOOSE i \in S : \A j \in S : j <= i

(* The first n addresses from a on that are not reserved.                  *)
FreeBytes(reserved, a, n) ==
    Loop(LAMBDA m, i : IF Cardinality(m) = n \/ (a + i) \in reserved THEN m ELSE m \union {a + i},
         {}, n + Cardinality(reserved))
-----------------------------------------------------------------------------
(* Control TLVs.  A lock byte has its address, its value once it was read, *)
(* the bits of it in use, the bytes a bit protects, and the state of its   *)
(* update.                                                                 *)

(* The address: high nibble of v[0] times the page size, plus the low one. *)
TlvOffset(v) == (v[0] \div 16) * 2^(v[2] % 16) + (v[0] % 16)

LockBytes(v) ==
    [i \in 1..Ceil(v[1], 8) |->
        [addr |-> TlvOffset(v) + i - 1, val |-> 0, read |-> FALSE,
         bits |-> IF i * 8 <= v[1] THEN 8 ELSE v[1] % 8,
         blpb |-> 2^(v[2] \div 16), status |-> "NOT_UPDATED"]]

MemArea(v) == [offset |-> TlvOffset(v), num_bytes |-> v[1]]

(* The bytes the control TLVs take out of the data area.                   *)
ReservedBytes(lockbyte, mem_tlv) ==
    {lockbyte[i].addr : i \in DOMAIN lockbyte}
      \union UNION {m.offset..(m.offset + m.num_bytes - 1) : m \in {mem_tlv[i] : i \in DOMAIN mem_tlv}}

(* Lock bits in order protect the bytes from address a on.                 *)
BytesLocked(lockbyte, a) ==
    LET bits == FoldLeft(LAMBDA s, l : s \o [i \in 1..l.bits |-> [set |-> Bit(l.val, i - 1),
                                                                blpb |-> l.blpb]],
                         <<>>, lockbyte)
        Next(m, b) == [at |-> m.at + b.blpb,
                       locked |-> IF b.set THEN m.locked \union m.at..(m.at + b.blpb - 1)
                                  ELSE m.locked]
        m == FoldLeft(Next, [at |-> a, locked |-> {}], bits)
    IN  m.locked
-----------------------------------------------------------------------------
(* Commands, answers and events.                                           *)

Cmd(op, blk, data) == [op |-> op, blk |-> blk, data |-> data]

NoCmd == Cmd("NONE", 0, NoData)

Rsp(kind, data) == [kind |-> kind, data |-> data]

(* An event of a tag type for NFA RW.  flags, cur and max belong to the    *)
(* detection of an NDEF tag.                                               *)
RwEvt(e, st) == [e |-> e, st |-> st, flags |-> {}, cur |-> 0, max |-> 0]

DetectEvt(st, flags, cur, max) ==
    [e |-> "NDEF_DETECT", st |-> st, flags |-> flags, cur |-> cur, max |-> max]

Report(h, event) == [h EXCEPT !.evt = Append(@, event)]

Ret(h, status) == [h EXCEPT !.ret = status]

(* A command goes out and its answer is awaited.                           *)
Transmit(h, c) == [h EXCEPT !.air = Append(@, c), !.timer = TRUE]

StopTimer(h) == [h EXCEPT !.timer = FALSE]
-----------------------------------------------------------------------------
(* What a tag holds, as a reader of the standard understands its memory.   *)

NoNdef == <<-1>>    \* no message

(* The message of the first NDEF TLV from address "from" on.  NULL TLVs    *)
(* have no length, a terminator ends the TLVs, lock and memory control     *)
(* TLVs take bytes out of the rest of the memory, other TLVs are skipped.  *)
TlvNdef(mem, from, taken) ==
    LET End(s) ==
            LET v == [i \in 0..(Len(s.value) - 1) |-> s.value[i + 1]]
                reserved == CASE s.type = LOCK_CTRL_TLV -> ReservedBytes(LockBytes(v), <<>>)
                              [] s.type = MEM_CTRL_TLV -> ReservedBytes(<<>>, <<MemArea(v)>>)
                              [] OTHER -> {}
            IN  [s EXCEPT !.want = IF s.type = NDEF_TLV THEN "DONE" ELSE "TYPE",
                          !.reserved = @ \union reserved]
        Length(s, n) == IF n = 0 THEN End([s EXCEPT !.value = <<>>])
                        ELSE [s EXCEPT !.want = "VALUE", !.len = n, !.value = <<>>]
        Value(s, byte) == LET t == [s EXCEPT !.value = Append(@, byte)]
                          IN  IF Len(t.value) = s.len THEN End(t) ELSE t
        Type(s, byte) == CASE byte = NULL_TLV -> s
                           [] byte = TERMINATOR_TLV -> [s EXCEPT !.want = "DONE"]
                           [] OTHER -> [s EXCEPT !.want = "LENGTH", !.type = byte]
        Visit(s, i) ==
            LET byte == mem[from + i]
            IN  CASE s.want = "DONE" \/ (from + i) \in s.reserved -> s
                  [] OTHER ->
                       CASE s.want = "TYPE" -> Type(s, byte)
                         [] s.want = "LENGTH" /\ byte = LONG_LEN_BYTE0 -> [s EXCEPT !.want = "HIGH"]
                         [] s.want = "LENGTH" /\ byte # LONG_LEN_BYTE0 -> Length(s, byte)
                         [] s.want = "HIGH" -> [s EXCEPT !.want = "LOW", !.len = byte * 256]
                         [] s.want = "LOW" -> Length(s, s.len + byte)
                         [] OTHER -> Value(s, byte)
        s == Loop(Visit, [want |-> "TYPE", type |-> NULL_TLV, len |-> 0, value |-> <<>>,
                          reserved |-> taken], Size(mem) - from)
    IN  IF s.want = "DONE" /\ s.type = NDEF_TLV /\ s.value # <<>> THEN s.value ELSE NoNdef
=============================================================================
