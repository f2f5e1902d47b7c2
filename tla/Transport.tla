------------------------------- MODULE Transport -------------------------------
(***************************************************************************)
(* One blocking request of each process: HttpFetch::fetch_with_progress      *)
(* (crates/plugin/src/http.rs), with the server and reqwest around it.       *)
(*                                                                         *)
(* A file is its size.  reqwest's blocking client holds the caller's wait to *)
(* its timeout: for send, with all its redirects, and for each read of the    *)
(* body anew.  Time is counted by the module that knows what else there is.   *)
(***************************************************************************)
EXTENDS Integers

CONSTANTS
  Procs,
  MaxRedirects,    \* max_redirects
  MaxBytes,        \* max_response_bytes
  Buffer,          \* the most that one read returns
  ProgressStep,    \* PROGRESS_STEP
  RequestTimeout,  \* request_timeout: the longest that send, or one read, may take
  Answers,         \* [total, framing]: the bodies servers have
  Policies,        \* [insecure, strict]: the opt-in; a release build
  Nil

Schemes == {"https", "http"}

\* How the end of a body is known: Content-Length, chunks, or the connection's end.
Framings == {"length", "chunked", "close"}

ASSUME TransportAssumption ==
  /\ MaxRedirects \in Nat /\ MaxBytes \in Nat /\ RequestTimeout \in Nat
  /\ Buffer \in Nat \ {0} /\ ProgressStep \in Nat \ {0}
  /\ Answers \subseteq [total : Nat, framing : Framings]
  /\ Policies \subseteq [insecure : BOOLEAN, strict : BOOLEAN]
  /\ Nil \notin Nat \cup Answers

VARIABLES
  chain,     \* while the server's answer is awaited: the URL asked for; or Nil
  answer,    \* while its body is read: the answer; or Nil
  complete,  \* the body has been read, the rename is left
  received,  \* written of stream_to
  reported,  \* reported of stream_to
  part,      \* the .part file, or Nil
  out,       \* the file just fetched, under its own name, and its answer; or Nil
  waited,    \* how long p has been at what it does: a request is one thing
  stalled    \* of that, how long send or the read under way has taken

transfer == <<chain, answer, complete, received, reported, part, out>>
transportVars == <<transfer, waited, stalled>>

\* secured: some URL of the chain was HTTPS.  spent: it was refused for its length.
Chains == [policy : Policies, scheme : Schemes, followed : Nat,
           secured : BOOLEAN, spent : BOOLEAN]
Outs == [size : Nat, answer : Answers]

TransportTypeOK ==
  /\ chain \in [Procs -> Chains \cup {Nil}] /\ answer \in [Procs -> Answers \cup {Nil}]
  /\ complete \in [Procs -> BOOLEAN]
  /\ received \in [Procs -> Nat] /\ reported \in [Procs -> Nat]
  /\ part \in [Procs -> Nat \cup {Nil}] /\ out \in [Procs -> Outs \cup {Nil}]
  /\ waited \in [Procs -> Nat] /\ stalled \in [Procs -> Nat]
  /\ \A p \in Procs :
       /\ part[p] # Nil <=> answer[p] # Nil
       /\ answer[p] # Nil => chain[p] = Nil
       /\ complete[p] => answer[p] # Nil

TransportInit ==
  /\ chain = [p \in Procs |-> Nil] /\ answer = [p \in Procs |-> Nil]
  /\ complete = [p \in Procs |-> FALSE]
  /\ received = [p \in Procs |-> 0] /\ reported = [p \in Procs |-> 0]
  /\ part = [p \in Procs |-> Nil] /\ out = [p \in Procs |-> Nil]
  /\ waited = [p \in Procs |-> 0] /\ stalled = [p \in Procs |-> 0]

Asking(p) == chain[p] # Nil
Reading(p) == answer[p] # Nil
Fetching(p) == Asking(p) \/ Reading(p)

-----------------------------------------------------------------------------
(* Which URLs may be asked for. *)

\* scheme_verdict
SchemeAllowed(scheme, policy) == policy.insecure \/ scheme = "https" \/ ~policy.strict

\* redirect_verdict's hops < max_redirects.  attempt.previous(), whose length hops
\* is, begins with the first URL.
WithinBudget(link) == link.followed + 1 < MaxRedirects

\* Mutant of MayFollow: the opt-in answers for the whole chain.
MayFollowByPolicy(link, target) == SchemeAllowed(target, link.policy)

MayFollow(link, target) ==
  /\ link.scheme = "https" => target = "https"
  /\ SchemeAllowed(target, link.policy)

-----------------------------------------------------------------------------
(* The request.  reaches: the directory of the file is there. *)

\* fetch is called; the first URL meets the policy before any request is sent.
Send(p, policy, scheme) ==
  /\ ~Fetching(p)
  /\ IF SchemeAllowed(scheme, policy)
     THEN chain' = [chain EXCEPT ![p] =
            [policy |-> policy, scheme |-> scheme, followed |-> 0,
             secured |-> scheme = "https", spent |-> FALSE]]
     ELSE UNCHANGED chain
  /\ out' = [out EXCEPT ![p] = Nil]
  /\ UNCHANGED <<answer, complete, received, reported, part>>

\* send returns an error, and fetch with it.
SendFails(p) ==
  /\ chain' = [chain EXCEPT ![p] = Nil]
  /\ UNCHANGED <<answer, complete, received, reported, part, out>>

\* The server answers with another URL; the budget is looked at first.
Redirect(p, target) ==
  /\ Asking(p) /\ ~chain[p].spent
  /\ IF ~WithinBudget(chain[p])
     THEN /\ chain' = [chain EXCEPT ![p].spent = TRUE]
          /\ UNCHANGED <<answer, complete, received, reported, part, out>>
     ELSE IF MayFollow(chain[p], target)
          THEN /\ chain' = [chain EXCEPT ![p].scheme = target, ![p].followed = @ + 1,
                                         ![p].secured = @ \/ target = "https"]
               /\ UNCHANGED <<answer, complete, received, reported, part, out>>
          ELSE SendFails(p)

\* The redirects were refused, or there is no connection, or no success in the status.
Unanswered(p) == Asking(p) /\ SendFails(p)

\* The response's headers: too long a body is refused by them, otherwise the
\* .part file is created, or replaces the one an earlier fetch left.
Respond(p, a, reaches) ==
  /\ Asking(p) /\ ~chain[p].spent
  /\ IF (a.framing = "length" /\ a.total > MaxBytes) \/ ~reaches
     THEN SendFails(p)
     ELSE /\ chain' = [chain EXCEPT ![p] = Nil]
          /\ answer' = [answer EXCEPT ![p] = a]
          /\ part' = [part EXCEPT ![p] = 0]
          /\ UNCHANGED <<complete, received, reported, out>>

\* Mutant of Forgotten: the partial file stays.
ForgottenButPart(p) ==
  /\ answer' = [answer EXCEPT ![p] = Nil] /\ complete' = [complete EXCEPT ![p] = FALSE]
  /\ received' = [received EXCEPT ![p] = 0] /\ reported' = [reported EXCEPT ![p] = 0]
  /\ UNCHANGED <<chain, part>>

\* Of the response nothing is kept but what is in the files.
Forgotten(p) ==
  /\ answer' = [answer EXCEPT ![p] = Nil] /\ complete' = [complete EXCEPT ![p] = FALSE]
  /\ received' = [received EXCEPT ![p] = 0] /\ reported' = [reported EXCEPT ![p] = 0]
  /\ part' = [part EXCEPT ![p] = Nil]
  /\ UNCHANGED chain

\* Mutant of StreamFails: what was received is taken for the file.
StreamFailsKept(p) ==
  /\ out' = [out EXCEPT ![p] = [size |-> received[p], answer |-> answer[p]]]
  /\ Forgotten(p)

\* An error of stream_to: the partial file is removed.
StreamFails(p) == Forgotten(p) /\ UNCHANGED out

\* Mutant of Read: counted after it was written.
ReadUncounted(p, n) ==
  /\ Reading(p) /\ ~complete[p] /\ n <= answer[p].total - received[p]
  /\ IF received[p] > MaxBytes
     THEN StreamFails(p)
     ELSE /\ received' = [received EXCEPT ![p] = @ + n]
          /\ part' = [part EXCEPT ![p] = received[p] + n]
          /\ reported' = [reported EXCEPT ![p] = received[p] + n]
          /\ UNCHANGED <<chain, answer, complete, out>>

\* n more bytes arrive: they are counted, then written, then reported.
Read(p, n) ==
  /\ Reading(p) /\ ~complete[p] /\ n <= answer[p].total - received[p]
  /\ LET written == received[p] + n IN
     IF written > MaxBytes
     THEN StreamFails(p)
     ELSE /\ received' = [received EXCEPT ![p] = written]
          /\ part' = [part EXCEPT ![p] = written]
          /\ reported' = [reported EXCEPT ![p] =
                            IF written - @ >= ProgressStep THEN written ELSE @]
          /\ UNCHANGED <<chain, answer, complete, out>>

\* A read or a write fails: the connection breaks, the disk is full.
Breaks(p) == Reading(p) /\ ~complete[p] /\ StreamFails(p)

\* Nothing more arrives.  When only the connection's end marks the body's, a
\* connection that breaks looks like a body that is complete.
BodyEnds(p) == received[p] = answer[p].total \/ answer[p].framing = "close"

\* Mutant of Eof: the last bytes are left to the step.
EofUnreported(p) ==
  /\ Reading(p) /\ ~complete[p] /\ BodyEnds(p)
  /\ complete' = [complete EXCEPT ![p] = TRUE]
  /\ UNCHANGED <<chain, answer, received, reported, part, out>>

\* The last report, and the flush.
Eof(p) ==
  /\ Reading(p) /\ ~complete[p] /\ BodyEnds(p)
  /\ complete' = [complete EXCEPT ![p] = TRUE]
  /\ reported' = [reported EXCEPT ![p] = received[p]]
  /\ UNCHANGED <<chain, answer, received, part, out>>

\* The rename.
Promote(p, reaches) ==
  /\ complete[p]
  /\ IF reaches
     THEN out' = [out EXCEPT ![p] = [size |-> received[p], answer |-> answer[p]]]
     ELSE UNCHANGED out
  /\ Forgotten(p)

\* send has returned with the headers, or a read with bytes or the end of the body.
\* A redirect is followed inside send.
Heard(p) == answer'[p] # answer[p] \/ received'[p] # received[p] \/ complete'[p] # complete[p]

\* Mutant of Due: only the connection's establishment is bounded.
DueConnecting(p) == Asking(p) /\ stalled[p] >= RequestTimeout

\* The timeout of send, or of the read under way, has come.
Due(p) == Fetching(p) /\ stalled[p] >= RequestTimeout

Deadline(p) == Due(p) /\ (Unanswered(p) \/ Breaks(p))

\* The caller has no more use for the file, or the process dies.
Release(p) ==
  /\ chain' = [chain EXCEPT ![p] = Nil] /\ answer' = [answer EXCEPT ![p] = Nil]
  /\ complete' = [complete EXCEPT ![p] = FALSE]
  /\ received' = [received EXCEPT ![p] = 0] /\ reported' = [reported EXCEPT ![p] = 0]
  /\ part' = [part EXCEPT ![p] = Nil] /\ out' = [out EXCEPT ![p] = Nil]
=============================================================================
