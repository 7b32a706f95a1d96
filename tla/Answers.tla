------------------------------- MODULE Answers -------------------------------
(***************************************************************************)
(* What a caller is answered when a guard throws: GlobalExceptionHandler   *)
(* tells classes of exceptions apart and gives each a status.  The codes   *)
(* of the program are BaseExceptions; a guard that returns false makes the *)
(* framework throw a ForbiddenException, for which there is no branch.     *)
(***************************************************************************)
EXTENDS Integers

Handled == 200  \* the handler is reached

\* AUTH_ERROR: the status of each code.
AuthErrors ==
    [MISSING_ACCESS_TOKEN |-> 401, MISSING_REFRESH_TOKEN |-> 401,
     INVALID_ACCESS_TOKEN |-> 401, EXPIRED_ACCESS_TOKEN |-> 401,
     EXPIRED_REFRESH_TOKEN |-> 401, INVALID_REFRESH_TOKEN |-> 401,
     PASSWORD_NOT_MATCHED |-> 401, RESOURCE_ACCESS_DENIED |-> 403,
     INVALID_RESET_TOKEN |-> 400, RATE_LIMIT_EXCEEDED |-> 429]

BaseException(code) == [class |-> "BaseException", status |-> AuthErrors[code]]
ForbiddenException == [class |-> "ForbiddenException", status |-> 403]

\* Whatever is none of the three classes is an unexpected error.
GlobalExceptionHandler(exception) ==
    IF exception.class \in {"BaseException", "BadRequestException", "NotFoundException"}
      THEN exception.status
      ELSE 500

=============================================================================
