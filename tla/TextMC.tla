------------------------------- MODULE TextMC -------------------------------
(* Bytes at the edges of what each group of functions tells apart.         *)
EXTENDS TextProps

\* 0 2 4 7 8, the neighbours / and : of the digits, a dot, f, F and G.
MCAlphabet == [number |-> {48, 50, 52, 55, 56, 47, 58, 46, 102, 70, 71},
\* %, the digits 3 4 F f, the neighbours G g, =, ?, & and bytes from 0x7f on.
               code   |-> {37, 51, 52, 70, 102, 71, 103, 61, 63, 38, 127, 255},
\* All bytes.
               byte   |-> 0..255,
\* A; 80 8f 90 9f a0 bf that continue; leads c1 c2 e0 f0 f4.
               utf8   |-> {65, 128, 143, 144, 159, 160, 191, 193, 194, 224, 240, 244},
\* ! - . / A _ a b
               name   |-> {33, 45, 46, 47, 65, 95, 97}]
MCMaxLength == [number |-> 4, code |-> 4, byte |-> 2, utf8 |-> 4, name |-> 3]
=============================================================================
