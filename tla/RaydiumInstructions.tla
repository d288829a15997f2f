------------------------- MODULE RaydiumInstructions -------------------------
(***************************************************************************)
(* The data of the instructions that the crate lib builds for the Raydium  *)
(* programs: the bytes that pack and serialize write, and what unpack and  *)
(* deserialize make of any bytes.                                          *)
(*                                                                         *)
(* A message is a variant with its fields in declaration order.  A u128    *)
(* field is kept as its two u64 halves, the low one first.  The layouts    *)
(* that are written and those that are read are separate code in every     *)
(* file, and separate tables here.                                         *)
(***************************************************************************)
EXTENDS Integers, SequencesExt

CONSTANTS
    ByteBase,           \* the values of a byte: 256, fewer in the runs
    StakeBufferLength   \* size_of::<StakePoolInstruction>()

(* A tag fits in a byte; the alignment of u128 is 8 or 16, by the target.  *)
ASSUME BufferAssumption ==
    /\ ByteBase \in Nat /\ ByteBase > 12
    /\ StakeBufferLength \in {40, 48}

Refused == [variant |-> "Refused", fields |-> << >>]

-----------------------------------------------------------------------------
(* What is written: variant -> tag and the widths of the fields.           *)
Layout(tag, widths) == [tag |-> tag, widths |-> widths]

AmmPack == [
    Initialize    |-> Layout(0, <<1, 8>>),
    Initialize2   |-> Layout(1, <<1, 8, 8, 8>>),
    Deposit       |-> Layout(3, <<8, 8, 8>>),
    Withdraw      |-> Layout(4, <<8>>),
    SwapBaseIn    |-> Layout(9, <<8, 8>>),
    PreInitialize |-> Layout(10, <<1>>),
    SwapBaseOut   |-> Layout(11, <<8, 8>>)]

StablePack == [
    Initialize    |-> Layout(0, <<1, 8>>),
    Deposit       |-> Layout(3, <<8, 8, 8>>),
    Withdraw      |-> Layout(4, <<8>>),
    SwapBaseIn    |-> Layout(9, <<8, 8>>),
    PreInitialize |-> Layout(10, <<1>>),
    SwapBaseOut   |-> Layout(11, <<8, 8>>)]

RoutePack == [
    RouteSwapIn           |-> Layout(0, <<8, 8>>),
    RouteSwapMinOut       |-> Layout(1, << >>),
    RouteStableSwapIn     |-> Layout(2, <<8, 8>>),
    RouteStableSwapMinOut |-> Layout(3, << >>),
    RouteSwapBaseInIn     |-> Layout(4, <<8, 8>>),
    RouteSwapBaseInMinOut |-> Layout(5, << >>)]

FarmSerialize == [
    Initialize              |-> Layout(0, <<8, 8, 8>>),
    Deposit                 |-> Layout(1, <<8>>),
    Withdraw                |-> Layout(2, <<8>>),
    UpdatePool              |-> Layout(3, << >>),
    EmergencyWithdraw       |-> Layout(7, << >>),
    CreateAssociatedAccount |-> Layout(10, << >>),
    DepositV2               |-> Layout(11, <<8>>),
    WithdrawV2              |-> Layout(12, <<8>>)]

StakeSerialize == [
    Initialize              |-> Layout(0, <<8, 8, 8, 8>>),
    Deposit                 |-> Layout(1, <<8>>),
    Withdraw                |-> Layout(2, <<8>>),
    UpdatePool              |-> Layout(3, << >>),
    EmergencyWithdraw       |-> Layout(7, << >>),
    CreateAssociatedAccount |-> Layout(9, << >>),
    DepositV2               |-> Layout(10, <<8>>),
    WithdrawV2              |-> Layout(11, <<8>>)]

Packed(program) ==
    CASE program = "amm" -> AmmPack
      [] program = "stable" -> StablePack
      [] program = "route" -> RoutePack
      [] program = "farm" -> FarmSerialize
      [] program = "staking" -> StakeSerialize

-----------------------------------------------------------------------------
(* What is read: tag -> variant and the widths of the fields.              *)
Reading(variant, widths) == [variant |-> variant, widths |-> widths]

AmmUnpack == [tag \in {0, 1, 3, 4, 9, 10, 11} |->
    CASE tag = 0  -> Reading("Initialize", <<1, 8>>)
      [] tag = 1  -> Reading("Initialize2", <<1, 8, 8, 8>>)
      [] tag = 3  -> Reading("Deposit", <<8, 8, 8>>)
      [] tag = 4  -> Reading("Withdraw", <<8>>)
      [] tag = 9  -> Reading("SwapBaseIn", <<8, 8>>)
      [] tag = 10 -> Reading("PreInitialize", <<1>>)
      [] tag = 11 -> Reading("SwapBaseOut", <<8, 8>>)]

StableUnpack == [tag \in {0, 3, 4, 9, 10, 11} |->
    CASE tag = 0  -> Reading("Initialize", <<1, 8>>)
      [] tag = 3  -> Reading("Deposit", <<8, 8, 8>>)
      [] tag = 4  -> Reading("Withdraw", <<8>>)
      [] tag = 9  -> Reading("SwapBaseIn", <<8, 8>>)
      [] tag = 10 -> Reading("PreInitialize", <<1>>)
      [] tag = 11 -> Reading("SwapBaseOut", <<8, 8>>)]

RouteUnpack == [tag \in 0..5 |->
    CASE tag = 0 -> Reading("RouteSwapIn", <<8, 8>>)
      [] tag = 1 -> Reading("RouteSwapMinOut", << >>)
      [] tag = 2 -> Reading("RouteStableSwapIn", <<8, 8>>)
      [] tag = 3 -> Reading("RouteStableSwapMinOut", << >>)
      [] tag = 4 -> Reading("RouteSwapBaseInIn", <<8, 8>>)
      [] tag = 5 -> Reading("RouteSwapBaseInMinOut", << >>)]

FarmDeserialize == [tag \in {0, 1, 2, 3, 7, 10, 11, 12} |->
    CASE tag = 0  -> Reading("Initialize", <<8, 8, 8>>)
      [] tag = 1  -> Reading("Deposit", <<8>>)
      [] tag = 2  -> Reading("Withdraw", <<8>>)
      [] tag = 3  -> Reading("UpdatePool", << >>)
      [] tag = 7  -> Reading("EmergencyWithdraw", << >>)
      [] tag = 10 -> Reading("CreateAssociatedAccount", << >>)
      [] tag = 11 -> Reading("DepositV2", <<8>>)
      [] tag = 12 -> Reading("WithdrawV2", <<8>>)]

MutStakeWithdrawFirst == [tag \in {0, 1, 2, 3, 7, 9, 10, 11} |->
    CASE tag = 0  -> Reading("Initialize", <<8, 8, 8, 8>>)
      [] tag = 1  -> Reading("Withdraw", <<8>>)
      [] tag = 2  -> Reading("Deposit", <<8>>)
      [] tag = 3  -> Reading("UpdatePool", << >>)
      [] tag = 7  -> Reading("EmergencyWithdraw", << >>)
      [] tag = 9  -> Reading("CreateAssociatedAccount", << >>)
      [] tag = 10 -> Reading("DepositV2", <<8>>)
      [] tag = 11 -> Reading("WithdrawV2", <<8>>)]

StakeDeserialize == [tag \in {0, 1, 2, 3, 7, 9, 10, 11} |->
    CASE tag = 0  -> Reading("Initialize", <<8, 8, 8, 8>>)
      [] tag = 1  -> Reading("Deposit", <<8>>)
      [] tag = 2  -> Reading("Withdraw", <<8>>)
      [] tag = 3  -> Reading("UpdatePool", << >>)
      [] tag = 7  -> Reading("EmergencyWithdraw", << >>)
      [] tag = 9  -> Reading("CreateAssociatedAccount", << >>)
      [] tag = 10 -> Reading("DepositV2", <<8>>)
      [] tag = 11 -> Reading("WithdrawV2", <<8>>)]

Readings(program) ==
    CASE program = "amm" -> AmmUnpack
      [] program = "stable" -> StableUnpack
      [] program = "route" -> RouteUnpack
      [] program = "farm" -> FarmDeserialize
      [] program = "staking" -> StakeDeserialize

-----------------------------------------------------------------------------
(* How many values an unsigned integer of so many bytes has.               *)
Values(width) ==
    LET power[i \in 0..width] == IF i = 0 THEN 1 ELSE power[i - 1] * ByteBase
    IN  power[width]

MutBigEndian(n, width) ==
    LET rest[i \in 0..width] == IF i = 0 THEN n ELSE rest[i - 1] \div ByteBase
    IN  [i \in 1..width |-> rest[width - i] % ByteBase]

(* Little-endian bytes.                                                    *)
ToBytes(n, width) ==
    LET rest[i \in 0..width] == IF i = 0 THEN n ELSE rest[i - 1] \div ByteBase
    IN  [i \in 1..width |-> rest[i - 1] % ByteBase]

FromBytes(bytes) ==
    LET last[i \in 0..Len(bytes)] ==       \* the value of the last i bytes
            IF i = 0 THEN 0 ELSE last[i - 1] * ByteBase + bytes[Len(bytes) + 1 - i]
    IN  last[Len(bytes)]

(* The fields lie one behind the other.                                    *)
Ends(widths) ==
    LET end[i \in 0..Len(widths)] == IF i = 0 THEN 0 ELSE end[i - 1] + widths[i]
    IN  end

Offset(widths, i) == Ends(widths)[i - 1]
TotalWidth(widths) == Ends(widths)[Len(widths)]

(* pack returns what it wrote; serialize fills a buffer of the size of the *)
(* enum, so that zeros follow the fields.                                  *)
PackedLength(program, used) ==
    CASE program = "farm" -> 32
      [] program = "staking" -> StakeBufferLength
      [] OTHER -> used

(* The variants without a layout are the reserved ones.  For those pack    *)
(* and serialize return an error, except in amm_instruction.rs, where pack *)
(* succeeds with an empty buffer.                                          *)
CanPack(program, message) ==
    message.variant \in DOMAIN Packed(program) \/ program = "amm"

Pack(program, message) ==
    IF message.variant \notin DOMAIN Packed(program) THEN << >>
    ELSE LET layout == Packed(program)[message.variant]
             fields == [i \in 1..Len(layout.widths) |->
                            ToBytes(message.fields[i], layout.widths[i])]
             written == <<layout.tag>> \o FlattenSeq(fields)
             padding == PackedLength(program, Len(written)) - Len(written)
         IN  written \o [i \in 1..padding |-> 0]

(* unpack_u8 and unpack_u64 check the bytes that are left before each      *)
(* field, and unpack::<T> the size of all of them.                         *)
Enough(rest, widths) == Len(rest) >= TotalWidth(widths)

Field(rest, widths, i) ==
    FromBytes(SubSeq(rest, Offset(widths, i) + 1, Offset(widths, i) + widths[i]))

Unpack(program, data) ==
    IF Len(data) = 0 THEN Refused
    ELSE LET tag == Head(data)
             rest == Tail(data)
         IN  IF tag \notin DOMAIN Readings(program) THEN Refused
             ELSE LET reading == Readings(program)[tag]
                  IN  IF ~Enough(rest, reading.widths) THEN Refused
                      ELSE [variant |-> reading.variant,
                            fields |-> [i \in 1..Len(reading.widths) |->
                                            Field(rest, reading.widths, i)]]
=============================================================================
