--------------------------- MODULE ForwardRequest ---------------------------
(***************************************************************************)
(* forward_request and connect_upstream (http_proxy.cpp): a worker thread  *)
(* connects to the upstream, sends the request and receives the response,  *)
(* at most twice.                                                          *)
(*                                                                         *)
(* The response is a sequence of pieces, one for each recv; a piece is the *)
(* number of the attempt it came with.  What http_response_parser makes of *)
(* the pieces is its state: nothing seen, in the header, in a body of      *)
(* known length or until the connection closes, or complete.  errno is the *)
(* thread's: it survives from one job to the next.                         *)
(***************************************************************************)
EXTENDS Naturals, Sequences

CONSTANTS
  MaxAddresses,   \* how many addresses a name has
  MaxPieces,      \* how many pieces a response may come in
  MaxRetries      \* kMaxPartialReadTimeoutRetries

ASSUME ForwardAssumption ==
  /\ MaxAddresses \in Nat \ {0}
  /\ MaxPieces \in Nat \ {0}
  /\ MaxRetries \in Nat

VARIABLES
  pc,        \* where the worker is
  attempt,   \* attempt: 0 or 1
  left,      \* connect_upstream: addresses not yet tried
  errno,     \* errno of this thread
  final,     \* final_errno
  out,       \* out_response
  parser,    \* response_parser
  retries,   \* partial_read_timeout_retries
  result,    \* what the function returned
  requests,  \* history: how many upstreams have received the whole request
  arrived,   \* history: how much of the response has arrived
  failed     \* history: what really made each attempt fail

vars == <<pc, attempt, left, errno, final, out, parser, retries, result,
          requests, arrived, failed>>

Transient == {"ETIMEDOUT", "ECONNRESET"}
Errno     == Transient \cup {"0", "EPROTO", "EINVAL", "other"}
SysError  == Transient \cup {"other"}   \* what a failing system call leaves

\* Every variable has its type: there are two attempts at most, and at most
\* MaxRetries waits for the rest of a response.
TypeOK ==
  /\ pc \in {"start", "connect", "send", "receive", "end", "done"}
  /\ attempt \in 0..1
  /\ left \in 0..MaxAddresses
  /\ errno \in Errno
  /\ final \in Errno
  /\ out \in Seq(0..1) /\ Len(out) <= MaxPieces
  /\ parser \in {"start", "header", "length", "close", "complete", "error"}
  /\ retries \in 0..MaxRetries
  /\ result \in {"none", "ok", "failed"}
  /\ requests \in 0..2
  /\ arrived \in {"nothing", "part", "interim", "all"}
  /\ failed \in Seq({"dns"} \cup Errno)

Init ==
  /\ pc = "start"
  /\ attempt = 0
  /\ left = 0
  /\ errno \in Errno
  /\ final = "0"
  /\ out = <<>>
  /\ parser = "start"
  /\ retries = 0
  /\ result = "none"
  /\ requests = 0
  /\ arrived = "nothing"
  /\ failed = <<>>

\* This attempt fails with e, for the reason `why'.
FailsFor(e, why) ==
  /\ final' = e
  /\ failed' = Append(failed, why)
  /\ pc' = "end"

Fails(e) == FailsFor(e, e)

Return(r) ==
  /\ result' = r
  /\ pc' = "done"

-----------------------------------------------------------------------------
(* One attempt: connect_upstream, send_all_nonblocking_socket, and the     *)
(* loop that receives.                                                     *)

\* A request without a host or a method cannot be built.
Start ==
  /\ pc = "start"
  /\ \/ pc' = "connect" /\ UNCHANGED <<errno, final, result>>
     \/ /\ errno' = "EINVAL" /\ final' = "EINVAL"
        /\ Return("failed")
  /\ UNCHANGED <<attempt, left, out, parser, retries, requests, arrived, failed>>

\* getaddrinfo does not report in errno: when it fails, errno is what it was
\* before, or what some call inside the resolver left.
Resolve ==
  /\ pc = "connect" /\ left = 0
  /\ out' = <<>> /\ arrived' = "nothing"
  /\ errno' \in {errno, "other"}
  /\ \/ /\ left' \in 1..MaxAddresses
        /\ UNCHANGED <<pc, final, failed>>
     \/ FailsFor(errno', "dns") /\ UNCHANGED left
  /\ UNCHANGED <<attempt, parser, retries, result, requests>>

\* socket, connect and, for a connection in progress, wait_fd and SO_ERROR:
\* an address answers, or leaves its error and the next one is tried.
TryAddress ==
  /\ pc = "connect" /\ left > 0
  /\ \/ /\ pc' = "send" /\ left' = 0
        /\ UNCHANGED <<errno, final, failed>>
     \/ /\ errno' \in SysError
        /\ left' = left - 1
        /\ IF left = 1 THEN Fails(errno') ELSE UNCHANGED <<pc, final, failed>>
  /\ UNCHANGED <<attempt, out, parser, retries, result, requests, arrived>>

Send ==
  /\ pc = "send"
  /\ \/ /\ pc' = "receive"
        /\ requests' = requests + 1
        /\ parser' = "start" /\ retries' = 0
        /\ UNCHANGED <<errno, final, failed>>
     \/ /\ errno' \in SysError
        /\ Fails(errno')
        /\ UNCHANGED <<requests, parser, retries>>
  /\ UNCHANGED <<attempt, left, out, result, arrived>>

\* What llhttp makes of one more piece: the states it can be in after it.  Line
\* ends before the response are skipped; a response that ends with its header, or
\* with the piece, is complete, one that changes the protocol (kUpgradedTunnel)
\* too; the piece may also go on with another message.
After(p) ==
  IF p = "close" THEN {"close"}
  ELSE {"header", "length", "close", "complete", "error"} \cup (IF p = "start" THEN {"start"} ELSE {})

\* recv returns data.  The parser calls an interim (1xx) response complete, as
\* it does the final one.
Piece ==
  /\ pc = "receive" /\ Len(out) < MaxPieces
  /\ out' = Append(out, attempt)
  /\ retries' = 0
  /\ parser' \in After(parser)
  /\ arrived' \in IF parser' = "complete" THEN {"interim", "all"}
                 ELSE IF parser' = "start" THEN {arrived} ELSE {"part"}
  /\ \/ parser' = "error" /\ Fails("EPROTO") /\ UNCHANGED result
     \/ parser' = "complete" /\ Return("ok") /\ UNCHANGED <<final, failed>>
     \/ parser' \notin {"error", "complete"} /\ UNCHANGED <<pc, final, failed, result>>
  /\ UNCHANGED <<attempt, left, errno, requests>>

\* Mutant: the end of the stream completes any response.
MayFinishAlways(p) == TRUE

\* llhttp_finish accepts the end of the stream in a body that lasts until
\* then, and where no message has begun.
MayFinish(p) == p \in {"start", "close"}

\* recv returns 0: the upstream has closed.
Eof ==
  /\ pc = "receive"
  /\ IF MayFinish(parser)
     THEN /\ arrived' = IF parser = "close" THEN "all" ELSE arrived
          /\ parser' = "complete"
          /\ Return("ok")
          /\ UNCHANGED <<final, failed>>
     ELSE /\ parser' = "error"
          /\ Fails("ECONNRESET")
          /\ UNCHANGED <<result, arrived>>
  /\ UNCHANGED <<attempt, left, errno, out, retries, requests>>

\* Mutant: the count starts over when it is used up.
TimeoutForever ==
  /\ pc = "receive"
  /\ errno' = "ETIMEDOUT"
  /\ IF out # <<>>
     THEN /\ retries' = IF retries < MaxRetries THEN retries + 1 ELSE 0
          /\ UNCHANGED <<pc, final, failed>>
     ELSE Fails("ETIMEDOUT") /\ UNCHANGED retries
  /\ UNCHANGED <<attempt, left, out, parser, result, requests, arrived>>

\* Nothing to receive within kIoTimeoutMs: part of a response is worth waiting
\* for a few times more.
Timeout ==
  /\ pc = "receive"
  /\ errno' = "ETIMEDOUT"
  /\ IF out # <<>> /\ retries < MaxRetries
     THEN retries' = retries + 1 /\ UNCHANGED <<pc, final, failed>>
     ELSE Fails("ETIMEDOUT") /\ UNCHANGED retries
  /\ UNCHANGED <<attempt, left, out, parser, result, requests, arrived>>

\* recv, or the wait for it, fails; recv itself may report ETIMEDOUT.
ReceiveError ==
  /\ pc = "receive"
  /\ errno' \in SysError
  /\ Fails(errno')
  /\ UNCHANGED <<attempt, left, out, parser, retries, result, requests, arrived>>

Receive == Piece \/ Eof \/ Timeout \/ ReceiveError

\* Mutant: every error is worth a second attempt.
EndAttemptAnyError ==
  /\ pc = "end"
  /\ IF attempt = 0
     THEN /\ attempt' = 1
          /\ pc' = "connect"
          /\ UNCHANGED <<errno, result>>
     ELSE /\ errno' = final
          /\ Return("failed")
          /\ UNCHANGED attempt
  /\ UNCHANGED <<left, final, out, parser, retries, requests, arrived, failed>>

\* After a failed attempt: once more after a transient error, and once only.
EndAttempt ==
  /\ pc = "end"
  /\ IF attempt = 0 /\ final \in Transient
     THEN /\ attempt' = 1
          /\ pc' = "connect"
          /\ UNCHANGED <<errno, result>>
     ELSE /\ errno' = final
          /\ Return("failed")
          /\ UNCHANGED attempt
  /\ UNCHANGED <<left, final, out, parser, retries, requests, arrived, failed>>

\* The result goes back to the main loop.
Done == pc = "done" /\ UNCHANGED vars

Step == Start \/ Resolve \/ TryAddress \/ Send \/ Receive \/ EndAttempt

Next == Step \/ Done

Spec == Init /\ [][Next]_vars

\* The worker's thread runs.
FairSpec == Spec /\ WF_vars(Step)

-----------------------------------------------------------------------------
(* Properties.                                                             *)

\* A success is one response, whole: the bytes of two attempts are never mixed
\* in what is received, judged by the parser and returned; a response that broke
\* off, in its header or in a body of known length, is never returned as a
\* success, and an attempt that failed never is either.
WholeResponse ==
  /\ pc # "connect" => \A i \in 1..Len(out) : out[i] = attempt
  /\ result = "ok" => arrived # "part" /\ Len(failed) = attempt

\* The whole request goes out a second time, and no third time, only if the
\* first upstream really timed out or reset the connection.
ResentAfterTransient ==
  requests <= 2 /\ (requests = 2 => failed[1] \in Transient)

\* A request is answered, with success or failure, in bounded time unless the
\* upstream keeps sending: a silent one is given up.
ForwardEnds == <>(pc = "done")

\* What the documentation says of forward_request: it succeeds when the
\* response is complete.  So it fails when the upstream closes without a word.
SuccessHasResponse == result = "ok" => arrived # "nothing"

\* For the same reason it does not succeed with an interim response alone.
SuccessIsFinal == result = "ok" => arrived # "interim"

\* What the documentation says of the second attempt: it follows a timeout or
\* a reset and no other error.
RetryOnlyTransient == attempt = 1 => failed[1] \in Transient
=============================================================================
