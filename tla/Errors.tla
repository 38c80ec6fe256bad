------------------------------- MODULE Errors -------------------------------
(***************************************************************************)
(* Error values, types/error.c: a machine word meant as a stack of codes.  *)
(* error_push shifts by sizeof(enum ErrorCode) = 4 bits and error_top      *)
(* reads 8, so that the code on top is mixed with the one below it.        *)
(***************************************************************************)
EXTENDS Masks

EC_SUCCESS == 0
EC_PMM_OUT_OF_MEMORY == 7
EC_RISCV_SV39_UNALIGNED_ADDR == 8
EC_RISCV_SV39_ALLOC_FAILED == 9
EC_RISCV_SV39_MAPPING_EXISTS == 10
EC_RISCV_SV39_NO_MAPPING == 11
EC_VIRTIO_INVALID_MAGIC == 12
EC_VIRTIO_UNSUPPORTED_VERSION == 13
EC_VIRTIO_INVALID_DEVICE == 14
EC_VIRTIO_UNSUPPORTED_DEVICE == 15
EC_DT_BLOB_INVALID_MAGIC == 16
EC_DT_BLOB_EMPTY_TREE == 17
EC_DT_BLOB_REWRITE_FAILED == 18
EC_DT_ADDRESS_CELLS_TOO_LARGE == 19
EC_DT_SIZE_CELLS_TOO_LARGE == 20
EC_COUNT == 27

SizeofErrorCode == 4

BitOr(x, y) == SumSet({2 ^ k : k \in {j \in 0..(WordBits - 1) : Bit(x, j) \/ Bit(y, j)}})

error_push(err, code) == BitOr((err * 2 ^ SizeofErrorCode) % 2 ^ WordBits, code)

error_top(err) == err % 2 ^ 8

error_is_ok(err) == error_top(err) = EC_SUCCESS

error_is_err(err) == ~error_is_ok(err)
=============================================================================
