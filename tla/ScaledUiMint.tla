---------------------------- MODULE ScaledUiMint ----------------------------
(***************************************************************************)
(* How utils/scaled_ui.rs finds the ScaledUiAmountConfig in the bytes of a *)
(* mint: a scan of type-length-value entries from a fixed offset.  Bytes   *)
(* are counted from 0, as the program does.                                *)
(***************************************************************************)
EXTENDS Integers, Sequences

CONSTANTS
  SCALED_UI_AMOUNT_EXTENSION_TYPE,  \* 20
  MINT_EXTENSIONS_OFFSET,           \* 83
  MINT_DECIMALS_OFFSET,             \* 44
  AUTHORITY_LEN,                    \* 32, the bytes of a public key
  NUMBER_LEN                        \* 8, the bytes of an f64 or an i64

ASSUME LayoutAssumption ==
  /\ SCALED_UI_AMOUNT_EXTENSION_TYPE \in Nat
  /\ MINT_EXTENSIONS_OFFSET \in Nat
  /\ MINT_DECIMALS_OFFSET \in 0 .. MINT_EXTENSIONS_OFFSET - 1
  /\ AUTHORITY_LEN \in Nat /\ NUMBER_LEN \in Nat

SCALED_UI_CONFIG_LEN == AUTHORITY_LEN + 3 * NUMBER_LEN

Refused == [error |-> "InvalidScaledUiAmountConfig"]

(* data[from .. from + n], and a u16 in little-endian order. *)
Slice(data, from, n) == SubSeq(data, from + 1, from + n)
u16_from_le_bytes(data, i) == data[i + 1] + 256 * data[i + 2]

from_bytes(bytes) ==
  [authority |-> Slice(bytes, 0, AUTHORITY_LEN),
   multiplier |-> Slice(bytes, AUTHORITY_LEN, NUMBER_LEN),
   new_multiplier_effective_timestamp |-> Slice(bytes, AUTHORITY_LEN + NUMBER_LEN, NUMBER_LEN),
   new_multiplier |-> Slice(bytes, AUTHORITY_LEN + 2 * NUMBER_LEN, NUMBER_LEN)]

(* Is an entry the ScaledUiAmount extension?  Mutant: what the comment in
   the loop says, "type = 20 or matching length 56". *)
EitherMatches(ext_type, ext_len) ==
  \/ ext_type = SCALED_UI_AMOUNT_EXTENSION_TYPE
  \/ ext_len = SCALED_UI_CONFIG_LEN
IsScaledUiAmount(ext_type, ext_len) ==
  /\ ext_type = SCALED_UI_AMOUNT_EXTENSION_TYPE
  /\ ext_len = SCALED_UI_CONFIG_LEN

(* A turn of the loop, at an entry: an error, the configuration, or what the
   turns after it find, further on. *)
Turn(mint_data, offset, scan) ==
  LET size == Len(mint_data)
      ext_type == u16_from_le_bytes(mint_data, offset)
      ext_len == u16_from_le_bytes(mint_data, offset + 2)
      body == offset + 4
  IN  IF body > size \/ body + ext_len > size THEN Refused
      ELSE IF IsScaledUiAmount(ext_type, ext_len)
      THEN [decimals |-> mint_data[MINT_DECIMALS_OFFSET + 1],
            config |-> from_bytes(Slice(mint_data, body, SCALED_UI_CONFIG_LEN))]
      ELSE scan[body + ext_len]

unpack_scaled_ui_mint(mint_data) ==
  LET scan[offset \in 0 .. Len(mint_data)] == Turn(mint_data, offset, scan)
  IN  IF Len(mint_data) < MINT_EXTENSIONS_OFFSET THEN Refused
      ELSE scan[MINT_EXTENSIONS_OFFSET]
=============================================================================
