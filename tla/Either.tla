-------------------------------- MODULE Either --------------------------------
(***************************************************************************)
(* monad/either.ts: the result of a call is Left, an error, or Right, a    *)
(* value.  A call may also throw, or return a promise that is rejected;    *)
(* what it throws is not an Either, and passes through flatMap as the      *)
(* exception passes through the chain of calls.                            *)
(***************************************************************************)

Left(error) == [tag |-> "Left", value |-> error]
Right(value) == [tag |-> "Right", value |-> value]
Thrown(error) == [tag |-> "Thrown", value |-> error]

IsLeft(e) == e.tag = "Left"
IsRight(e) == e.tag = "Right"

FlatMap(e, f(_)) == IF IsRight(e) THEN f(e.value) ELSE e

Fold(e, onLeft(_), onRight(_)) == IF IsLeft(e) THEN onLeft(e.value) ELSE onRight(e.value)

(* requireCond: throw unless the condition holds.                          *)
RequireCond(condition, code, value) == IF condition THEN Right(value) ELSE Thrown(code)
=============================================================================
