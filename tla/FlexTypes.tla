------------------------------ MODULE FlexTypes ------------------------------
(***************************************************************************)
(* The variable types of the FlexBuffers format (flexbuffers/descriptor.go) *)
(* and the predicates the library classifies them with                     *)
(* (flexbuffers/flexbuffers.go).  The codes are those of the source: the   *)
(* predicates are comparisons of codes there, and so they are here.        *)
(***************************************************************************)
EXTENDS Naturals

NULL  == 0
INT   == 1
UINT  == 2
FLOAT == 3
KEY    == 4
STR    == 5   \* STRING in the source, a reserved word here
INDIRECT_INT   == 6
INDIRECT_UINT  == 7
INDIRECT_FLOAT == 8
MAP    == 9
VECTOR == 10
VECTOR_INT   == 11
VECTOR_UINT  == 12
VECTOR_FLOAT == 13
VECTOR_KEY   == 14
VECTOR_STRING_DEPRECATED == 15
VECTOR_INT2   == 16
VECTOR_UINT2  == 17
VECTOR_FLOAT2 == 18
VECTOR_INT3   == 19
VECTOR_UINT3  == 20
VECTOR_FLOAT3 == 21
VECTOR_INT4   == 22
VECTOR_UINT4  == 23
VECTOR_FLOAT4 == 24
BLOB == 25
BOOL == 26
VECTOR_BOOL == 36

VarType == 0..26 \cup {VECTOR_BOOL}

(* Stored in the parent itself; every other type is stored as an offset.   *)
isInline(v) == v <= 3 \/ v = BOOL

isBlobLike(v) == v \in {BLOB, STR, KEY}

isScalar(v) == v >= 6 /\ v <= 8
isTuple(v)  == v >= 16 /\ v <= 18
isTriple(v) == v >= 19 /\ v <= 21
isQuad(v)   == v >= 22 /\ v <= 24
isFixedTypedVector(v) == isScalar(v) \/ isTuple(v) \/ isTriple(v) \/ isQuad(v)

isTypedVector(v) ==
    (v > 10 /\ v < 16) \/ isFixedTypedVector(v) \/ v = VECTOR_BOOL \/ v = VECTOR_KEY

isIntTyped(v) == v \in {VECTOR_INT, INDIRECT_INT, VECTOR_INT2, VECTOR_INT3, VECTOR_INT4}
isUintTyped(v) ==
    v \in {VECTOR_UINT, INDIRECT_UINT, VECTOR_UINT2, VECTOR_UINT3, VECTOR_UINT4}
        \/ isBlobLike(v)
isFloatTyped(v) ==
    v \in {VECTOR_FLOAT, INDIRECT_FLOAT, VECTOR_FLOAT2, VECTOR_FLOAT3, VECTOR_FLOAT4}
isBoolTyped(v) == v = VECTOR_BOOL

(* ByteSize: the exponent of a width in bytes (b8 = 0 stands for 1 byte).  *)
b8  == 0
b16 == 1
b32 == 2
b64 == 3
ByteSize == b8..b64
=============================================================================
