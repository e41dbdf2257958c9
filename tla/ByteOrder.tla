----------------------------- MODULE ByteOrder ------------------------------
(***************************************************************************)
(* Fixed-size values in the memory of a host and on the wire, which is      *)
(* little-endian: byteswap.hpp, and the copies that call it on hosts that    *)
(* are not (PROTOZERO_BYTE_ORDER).                                          *)
(***************************************************************************)
EXTENDS WireFormat

Host == {"little", "big"}

ByteRadix == 2 * Radix

\* Exponentiation, as in RadixAssumption: the places of the bytes of a value.
ASSUME PlaceAssumption ==
    \A size \in {Fixed32Bytes, Fixed64Bytes} :
        /\ \A k \in 0 .. size - 1 : ByteRadix^k \in Nat \ {0}
        /\ ByteRadix^0 = 1
        /\ \A k \in 1 .. size - 1 : ByteRadix^k = ByteRadix * ByteRadix^(k - 1)

\* Byte i of a value of size bytes, the least significant one being byte 0.
Digit(value, i) == (value \div ByteRadix^i) % ByteRadix

\* The number whose byte i is digit[i].
Composed(digit, size) ==
    LET value[i \in 0 .. size - 1] ==
            digit[i] + (IF i = size - 1 THEN 0 ELSE ByteRadix * value[i + 1])
    IN value[0]

\* Mutated form of ByteswapImpl: the halves are exchanged, not the bytes.
ByteswapHalves(value, size) ==
    Composed([i \in 0 .. size - 1 |-> Digit(value, (i + size \div 2) % size)], size)

\* byteswap_impl: each byte is masked and shifted to its mirrored place.
ByteswapImpl(value, size) ==
    Composed([i \in 0 .. size - 1 |-> Digit(value, size - 1 - i)], size)

\* What reinterpret_cast<const char*> shows of a number, and what memcpy makes
\* of the size bytes of s at a position.
InMemory(value, size, host) ==
    [n \in 1 .. size |-> Digit(value, IF host = "little" THEN n - 1 ELSE size - n)]
FromMemory(s, at, size, host) ==
    Composed([i \in 0 .. size - 1 |-> s[IF host = "little" THEN at + i ELSE at + size - 1 - i]],
             size)

\* add_fixed
AddFixed(value, size, host) ==
    InMemory(IF host = "little" THEN value ELSE ByteswapImpl(value, size), size, host)

\* get_fixed, and operator* of const_fixed_iterator
GetFixedNumber(s, at, size, host) ==
    LET result == FromMemory(s, at, size, host)
    IN IF host = "little" THEN result ELSE ByteswapImpl(result, size)
=============================================================================
