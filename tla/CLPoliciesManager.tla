------------------------- MODULE CLPoliciesManager -------------------------
(***************************************************************************)
(* The class of a small object: getTypeIndexBySize, and the table of the   *)
(* classes' sizes it has to agree with.                                    *)
(***************************************************************************)
EXTENDS Integers, Sequences

TYPE_TO_SIZE_MAP == <<
      64,   128,   192,   256,   320,   384,   448,   512,
     640,   768,   896,  1024,  1280,  1536,  1792,  2048,
    2560,  3072,  3584,  4096,  5120,  6144,  7168,  8192,
   10240, 12288, 14336, 16384, 20480, 24576, 28672, 32768 >>

SMALL_OBJ_CATEORY_NUM == 32
MAX_SMALL_OBJ_SIZE    == 2^15

\* An index of the table in the code counts from 0.
SizeOf(typeIndex) == TYPE_TO_SIZE_MAP[typeIndex + 1]

\* _bsr_int64: the highest bit that is set, of a size below 2^31.
FirstTrueBit(n) == CHOOSE b \in 0 .. 30 : 2^b <= n /\ n < 2^(b + 1)

\* Mutant: what is left below a quarter is not rounded up to one.
QuarterRoundedDown(bit, offset) == (offset \div 2^(bit - 2)) + 7

\* The sizes between two powers of two from 512 on fall into four classes.
Quarter(bit, offset) == (offset \div 2^(bit - 2)) + 8

Lines(n) == (n + 63) \div 64 - 1

getTypeIndexBySize(n) ==
    LET bit    == FirstTrueBit(n)
        offset == n - 2^bit
    IN CASE bit < 9                 -> Lines(n)
         [] bit >= 9 /\ offset = 0  -> 7 + 4 * (bit - 9)
         [] bit >= 9 /\ offset # 0  -> Quarter(bit, offset) + 4 * (bit - 9)

\* An object of n bytes fits into the slots of its class, whose index is in the
\* table, and no smaller class would do, except that a size which is exactly a
\* class of its own above 512 and no power of two gets the next one.
FitsItsClass(n) ==
    LET typeIndex == getTypeIndexBySize(n)
        quarter   == typeIndex > 8 /\ n = SizeOf(typeIndex - 1) /\ n # 2^FirstTrueBit(n)
    IN /\ typeIndex \in 0 .. SMALL_OBJ_CATEORY_NUM - 1
       /\ n <= SizeOf(typeIndex)
       /\ typeIndex = 0 \/ quarter \/ SizeOf(typeIndex - 1) < n
=============================================================================
