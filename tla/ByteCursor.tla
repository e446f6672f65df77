----------------------------- MODULE ByteCursor -----------------------------
(***************************************************************************)
(* byte_cursor_t (src/common/byte_reader.c): a window of length bytes that *)
(* starts at byte base of the frame, of which offset have been read.  A    *)
(* call that fails leaves the cursor alone, so a call is an error and,     *)
(* when that is "0", a cursor.  The bytes read are fields of the frame,    *)
(* not numbers put together here.                                          *)
(***************************************************************************)
EXTENDS Naturals

ByteCursors == [base : Nat, length : Nat, offset : Nat]

byte_cursor_init(base, length) == [base |-> base, length |-> length, offset |-> 0]

byte_cursor_remaining(c) == IF c.offset > c.length THEN 0 ELSE c.length - c.offset

byte_cursor_require_bytes(c, n) ==
  IF c.offset > c.length THEN "EINVAL"
  ELSE IF byte_cursor_remaining(c) < n THEN "ENODATA" ELSE "0"

byte_cursor_skip(c, n) == [c EXCEPT !.offset = @ + n]

(* The slice that byte_cursor_read_slice hands out, a cursor of its own. *)
SliceOf(c, n) == byte_cursor_init(c.base + c.offset, n)
=============================================================================
