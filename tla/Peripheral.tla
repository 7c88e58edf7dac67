----------------------------- MODULE Peripheral -----------------------------
(***************************************************************************)
(* The registers of a peripheral, and how the calls of its driver write    *)
(* them, beside what the program asked of each field.                      *)
(***************************************************************************)
EXTENDS Registers, TLC
LOCAL INSTANCE FiniteSetsExt

CONSTANT Field    \* of each field: its register and its bits, as the header gives them
VARIABLES
  regs,           \* the bits that are one in each register
  asked           \* history: the bits that each field was last asked to have

Bits(f) == Field[f][2]
Mask(fields) == UNION {Bits(f) : f \in fields}
AllOff == [f \in DOMAIN Field |-> {}]

Ones(fields, ones) == [f \in fields |-> IF f \in ones THEN Bits(f) ELSE {}]
Asks(values) == asked' = values @@ asked
Write(reg, bits) == regs' = [regs EXCEPT ![reg] = bits]

\* The ...Cmd calls: |= the mask for ENABLE, &= ~ the mask for DISABLE.
Turns(reg, fields, on) ==
  /\ Write(reg, SwitchBits(regs[reg], Mask(fields), on))
  /\ Asks(Ones(fields, IF on THEN fields ELSE {}))

\* The ...Config calls: the field is cleared and a constant of the header, given
\* by its bits, is set in its place.
Picks(reg, f, bits) == Write(reg, MODIFY_REG(regs[reg], Bits(f), bits)) /\ Asks(f :> bits)

\* The Set... calls: behind a mask, a number is shifted into place.
Stores(reg, mask, f, n, shift) ==
  /\ Write(reg, MODIFY_REG(regs[reg], mask, Shl(BitsOf(n), shift)))
  /\ Asks(f :> {b \in Bits(f) : b - Min(Bits(f)) \in BitsOf(n)})

\* Each field holds what was asked of it, and those that are lost nothing.
KeptBut(lost) ==
  \A f \in DOMAIN Field : regs[Field[f][1]] \intersect Bits(f) = IF f \in lost THEN {} ELSE asked[f]
FieldsKept == KeptBut({})
=============================================================================
