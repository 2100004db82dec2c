------------------------------ MODULE MCUtils ------------------------------
(***************************************************************************)
(* The functions of utils/ on small inputs, against what each is for: the  *)
(* arithmetic of math.rs, and scaled_ui.rs on mints with a few extensions. *)
(* A step draws the arguments of the next call, or gives the mint one more *)
(* extension.                                                              *)
(***************************************************************************)
EXTENDS StripVaultMath, ScaledUiMint, FiniteSetsExt, Functions, SequencesExt

CONSTANTS
  BOUND,             \* the largest argument
  ExtensionTypes,    \* the types of extensions a mint may have
  Fillings,          \* the sequences of bytes that may fill an extension
  MOST_EXTENSIONS    \* how many extensions a mint may have

ASSUME BOUNDAssumption == BOUND \in Nat
ASSUME ExtensionsAssumption ==
  /\ ExtensionTypes \subseteq Nat
  /\ \A filling \in Fillings : filling \in Seq(Nat) /\ filling # << >>

VARIABLES a, b, c, extensions
inputs == <<a, b, c, extensions>>

Args == 0 .. BOUND

(* Lengths around that of the configuration, and none at all. *)
Lengths == {0, SCALED_UI_CONFIG_LEN, SCALED_UI_CONFIG_LEN + 1}
Extension == [type : ExtensionTypes, len : Lengths, filling : Fillings]

Init == a = 0 /\ b = 0 /\ c = 0 /\ extensions = << >>

Call ==
  /\ extensions = << >>
  /\ a' \in Args /\ b' \in Args /\ c' \in Args
  /\ UNCHANGED extensions

AddExtension ==
  /\ a = 0 /\ b = 0 /\ c = 0
  /\ Len(extensions) < MOST_EXTENSIONS
  /\ \E e \in Extension : extensions' = Append(extensions, e)
  /\ UNCHANGED <<a, b, c>>

Next == Call \/ AddExtension
Spec == Init /\ [][Next]_inputs

-----------------------------------------------------------------------------
(* math.rs                                                                 *)

(* The harvest is the most that can be taken from a raw tokens when the
   multiplier goes from b to c, with what is left worth at least what all of
   it was: rounding costs the keeper, never the principal. *)
HarvestIsTheMostThatDilutesNothing ==
  HarvestDefined(b, c) =>
    calculate_harvest_amount(a, b, c) = Max({q \in 0 .. a : (a - q) * c >= a * b})

(* A share is the number of units of the payout that lie wholly within its
   basis points; shares that fill the allocation never ask for more than
   the payout, and the whole of it is the payout. *)
SharesSplitThePayout ==
  \A bps \in 0 .. MAX_YIELD_BPS :
    /\ calculate_yield_share(a, bps)
         = Cardinality({k \in 1 .. a : k * MAX_YIELD_BPS <= a * bps})
    /\ calculate_yield_share(a, bps) + calculate_yield_share(a, MAX_YIELD_BPS - bps)
         \in {a - 1, a}

(* The fixed-point multiplier is the nearest one to the f64, the larger of
   two that are as near, unless it does not fit. *)
MultiplierIsTheNearest ==
  ValidMultiplier(a) =>
    LET error(fixed) == IF a > fixed * FIXED_UNIT THEN a - fixed * FIXED_UNIT
                        ELSE fixed * FIXED_UNIT - a
        best == {f \in 0 .. a + 1 : \A g \in 0 .. a + 1 : error(f) <= error(g)}
    IN  f64_to_fixed_multiplier(a) = Min({Max(best), U64_MAX})

(* A swap of a + b tokens pays no less than swapping a and b apart, and at
   most one unit more, so splitting a harvest gains nothing. *)
SwapInOneGoIsBest ==
  \A rate \in {None, c}, asset \in PayoutAssetTypes :
    LET out(n) == calculate_simulated_swap_output(n, asset, rate)
    IN  /\ out(a + b) - out(a) - out(b) \in {0, 1}
        /\ out(SCALE_FACTOR) = SwapRate(asset, rate)

(* Total, which counts units, is the sum that the community modules fold. *)
ASSUME TotalIsTheSum ==
  \A f \in [1 .. 3 -> 0 .. 3] : \A S \in SUBSET (1 .. 3) :
    Total(f, S) = SumFunctionOnSet(f, S)

-----------------------------------------------------------------------------
(* scaled_ui.rs                                                            *)

DECIMALS == 6
Zeros(n) == [i \in 1 .. n |-> 0]
u16_to_le_bytes(n) == <<n % 256, n \div 256>>

Body(e) == [i \in 1 .. e.len |-> e.filling[((i - 1) % Len(e.filling)) + 1]]
Entry(e) == u16_to_le_bytes(e.type) \o u16_to_le_bytes(e.len) \o Body(e)
Entries == FlattenSeq([i \in DOMAIN extensions |-> Entry(extensions[i])])

(* The fields of a mint before its extensions, of which only the decimals
   matter here. *)
BaseMint(size) == [Zeros(size) EXCEPT ![MINT_DECIMALS_OFFSET + 1] = DECIMALS]

(* A mint as the unit test of scaled_ui.rs builds one: the entries begin at
   MINT_EXTENSIONS_OFFSET. *)
MockMint == BaseMint(MINT_EXTENSIONS_OFFSET) \o Entries

(* A mint with one extension as Token-2022 lays it out: a base mint of 82
   bytes, padded to the 165 bytes of a token account, a byte for the type of
   account, 1 for a mint, and then the entry. *)
Token2022Mint(e) == BaseMint(82) \o Zeros(83) \o <<1>> \o Entry(e)

Configured ==
  {i \in DOMAIN extensions : /\ extensions[i].type = SCALED_UI_AMOUNT_EXTENSION_TYPE
                             /\ extensions[i].len = SCALED_UI_CONFIG_LEN}

(* Whatever other extensions there are before it, of whatever length and
   contents, the program reads the first ScaledUiAmount extension, and the
   four fields out of it in their order; without one the mint is refused.
   A mint cut short is refused or read as the whole one is. *)
ReadsTheFirstExtension ==
  LET read == unpack_scaled_ui_mint(MockMint)
  IN  /\ IF Configured = {} THEN read = Refused
         ELSE /\ read.decimals = DECIMALS
              /\ read.config.authority \o read.config.multiplier
                   \o read.config.new_multiplier_effective_timestamp
                   \o read.config.new_multiplier = Body(extensions[Min(Configured)])
      /\ \A n \in 0 .. Len(MockMint) :
           unpack_scaled_ui_mint(SubSeq(MockMint, 1, n)) \in {Refused, read}

(* scaled_ui.rs:74, "Unpacks the decimals and ScaledUiAmountConfig from a
   Token-2022 Mint account data slice": with the type that the program looks
   for, a configuration is read where Token-2022 puts it.  scaled_ui.rs:93,
   "type = 20 or matching length 56": where the program looks, the length is
   enough.  One of the two holds, at least. *)
ScanKeepsOneComment ==
  \A e \in Range(extensions) :
    e.len = SCALED_UI_CONFIG_LEN =>
      \/ unpack_scaled_ui_mint(Token2022Mint([e EXCEPT !.type = SCALED_UI_AMOUNT_EXTENSION_TYPE]))
           # Refused
      \/ unpack_scaled_ui_mint(MockMint) # Refused

-----------------------------------------------------------------------------
(* Bytes that look like the header of a configuration, and others. *)
HeaderLike == <<SCALED_UI_AMOUNT_EXTENSION_TYPE, 0, SCALED_UI_CONFIG_LEN, 0>>
AnyBytes == {HeaderLike, <<1, 2, 3, 4>>}
=============================================================================
