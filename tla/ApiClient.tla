----------------------------- MODULE ApiClient -----------------------------
(***************************************************************************)
(* What a call of the frontend's HTTP client can come back with.  The two  *)
(* clients of lib/api/client.ts are created without better-fetch's         *)
(* `throw' option, so an HTTP error is a resolved promise whose data is    *)
(* null; only a transport failure rejects.                                 *)
(***************************************************************************)

\* "ok": a 2xx answer; "refused": a 4xx or 5xx answer; "network": no answer.
Outcomes == {"ok", "refused", "network"}

\* The awaited call throws, withApiErrorToast rethrows it as an ApiError.
Throws(o) == o = "network"

\* The data field of the resolved promise is not null.
HasData(o) == o = "ok"

\* A service that reports an empty response throws for an HTTP error as well.
Rejects(o) == Throws(o) \/ ~HasData(o)

\* A service that never looks at the data resolves for an HTTP error.
Resolves(o) == ~Throws(o)

=============================================================================
