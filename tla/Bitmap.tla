------------------------------- MODULE Bitmap -------------------------------
(***************************************************************************)
(* struct mrpc_bitmap: the allocator of request ids (client stream         *)
(* processor) and of stream processor ids (server).  The bits of the       *)
(* uint64_t array that are 1 are the set map; a search for a free bit      *)
(* starts at last_free_bit and wraps round at size.                        *)
(***************************************************************************)
EXTENDS Integers

CONSTANT Size                \* bitmap->size

ASSUME SizeAssumption == Size \in Nat \ {0}

VARIABLES
    map,                     \* the occupied bits
    last_free_bit            \* where the next search starts

bitmapVars == <<map, last_free_bit>>

Bits == 0 .. Size - 1

(***************************************************************************)
(* The layout of the array: bit n is bit n & 0x3f of word n >> 6, and the  *)
(* array has (size + 0x3f) >> 6 words.                                     *)
(***************************************************************************)
U64_ARRAY_INDEX(n) == n \div 64
U64_BIT_NUM(n) == n % 64
GET_U64_ARRAY_SIZE(bits) == (bits + 63) \div 64

(***************************************************************************)
(* mrpc_bitmap_create                                                      *)
(***************************************************************************)
BitmapInit ==
    /\ map = {}
    /\ last_free_bit = 0

(***************************************************************************)
(* mrpc_bitmap_acquire_bit.  Position(i) is the value of n in iteration i  *)
(* of the search loop.                                                     *)
(***************************************************************************)

Position(i) ==
    IF last_free_bit + i >= Size THEN last_free_bit + i - Size
                                 ELSE last_free_bit + i

\* mutant: one iteration too few
OneTooFew == 0 .. Size - 2

Iterations == 0 .. Size - 1

\* the loop leaves through the break in iteration i
FoundAt(i) ==
    /\ Position(i) \notin map
    /\ \A j \in 0 .. i - 1 : Position(j) \in map

AcquireBit ==
    \E i \in Iterations :
        /\ FoundAt(i)
        /\ map' = map \cup {Position(i)}
        /\ last_free_bit' = Position(i)

\* the loop runs out of iterations: -1 is returned
AcquireFails ==
    /\ \A i \in Iterations : Position(i) \in map
    /\ UNCHANGED bitmapVars

(***************************************************************************)
(* mrpc_bitmap_release_bit.  The guard is the function's assertion, which  *)
(* its callers must meet; last_free_bit stays where it is, so the bit      *)
(* acquired last is the first one to be reused.                            *)
(***************************************************************************)
ReleaseBit(n) ==
    /\ n \in map
    /\ map' = map \ {n}
    /\ UNCHANGED last_free_bit

BitmapNext ==
    \/ AcquireBit
    \/ AcquireFails
    \/ \E n \in Bits : ReleaseBit(n)

BitmapSpec == BitmapInit /\ [][BitmapNext]_bitmapVars

-----------------------------------------------------------------------------
(***************************************************************************)
(* Properties                                                              *)
(***************************************************************************)

\* The bitmap and the search position stay within the size given to
\* mrpc_bitmap_create, whose assertion last_free_bit < size the acquire
\* function repeats.
BitmapTypeOK ==
    /\ map \subseteq Bits
    /\ last_free_bit \in Bits

\* mrpc_bitmap_acquire_bit gives up exactly when there is nothing to give:
\* wherever last_free_bit points, the wrapping search visits every bit, finds
\* a free one if there is one, and finds only one.
GivesUpIffFull ==
    /\ (\A i \in Iterations : Position(i) \in map) <=> map = Bits
    /\ map # Bits => \E i \in Iterations :
                        /\ FoundAt(i)
                        /\ \A j \in Iterations : FoundAt(j) => j = i
=============================================================================
