------------------------------ MODULE UnitText ------------------------------
(***************************************************************************)
(* Units (include/hidrd/util/unit.h, lib/util/unit.c): a number whose      *)
(* lowest half-byte is a system, whose highest is reserved, and the rest   *)
(* exponents from -8 to 7, one for each quantity.  The quantities are as   *)
(* many as a number of four bytes has room for, six in the code.           *)
(***************************************************************************)
EXTENDS Numeral

Systems ==
    [none |-> 0, si_linear |-> 1, si_rotation |-> 2, english_linear |-> 3,
     english_rotation |-> 4, vendor |-> 15]
ValidSystems == 0 .. 15
SystemKnown(system) == system >= 1 /\ system <= 4

Nibbles == 4 * DigitsPerByte
Quantities == 1 .. Nibbles - 2

GetNibble(unit, i) == (unit \div (16 ^ i)) % 16
SetNibble(unit, i, value) == unit + (value - GetNibble(unit, i)) * 16 ^ i
SystemOf(unit) == GetNibble(unit, 0)

(* A plausible mistake: the sign of an exponent is lost.                    *)
ExpToIntUnsigned(exp) == exp
ExpToInt(exp) == IF exp >= 8 THEN exp - 16 ELSE exp
ExpFromInt(n) == IF n < 0 THEN n + 16 ELSE n
ExpToDec(exp) == ToRepr("s32", ExpToInt(exp), "dec")
ExpFromDec(text) ==
    {ExpFromInt(n) : n \in {k \in FromRepr("s32", text, "dec") : k >= -8 /\ k <= 7}}

(* No reserved half-byte is set.                                            *)
UnitKnown(unit) == GetNibble(unit, Nibbles - 1) = 0
(* It has no system, or nothing beside it.                                  *)
UnitVoid(unit) == SystemOf(unit) = 0 \/ unit \div 16 = 0

(* The names of the quantities in each system, and without one.             *)
NamesOf(system) ==
    SubSeq(CASE system = 1 -> <<"centimeter", "gram", "seconds", "kelvin", "ampere", "candela">>
             [] system = 2 -> <<"radians", "gram", "seconds", "kelvin", "ampere", "candela">>
             [] system = 3 -> <<"inch", "slug", "seconds", "fahrenheit", "ampere", "candela">>
             [] system = 4 -> <<"degrees", "slug", "seconds", "fahrenheit", "ampere", "candela">>
             [] ~SystemKnown(system) ->
                    <<"length", "mass", "time", "temperature", "current", "luminous_intensity">>,
           1, Nibbles - 2)
==============================================================================
