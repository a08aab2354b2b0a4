------------------------------ MODULE CheckSteps ------------------------------
(***************************************************************************)
(* The vocabulary in which the contract checks are written down.           *)
(*                                                                         *)
(* A check of the suite is a straight line of fixture hooks, provider      *)
(* calls and comparisons with early returns.  It is modelled as a program: *)
(* the steps in the order of the code.  A step says what the code asks,    *)
(* what it accepts and how it leaves when the answer is another one; the   *)
(* module CheckRunner executes it.                                         *)
(*                                                                         *)
(* A resource is a role ("target", "source", ...), its content one of      *)
(* "absent", "old" (what the fixture seeded), "new" (the payload of the    *)
(* check), "both" (appended), "empty", "data" (a temporary resource        *)
(* without and with its seeded content), "dir" or "other".  An effect      *)
(* gives the roles a call changes their content; the name of a role stands *)
(* for that role's content before the call.                                *)
(***************************************************************************)
EXTENDS Sequences, FiniteSets

Nothing == [r \in {} |-> "absent"]

\* fixture.path(..)?
Path == [kind |-> "path"]

\* A fixture hook that seeds `seed`.  `unavailable` and `declined` are the
\* outcomes when it cannot (Unavailable or Unsupported, NotApplicable);
\* `records` are the roles recorded as soon as it is ready.
PrepareOr(seed, records, unavailable, declined) ==
    [kind |-> "prepare", seed |-> seed, records |-> records,
     unavailable |-> unavailable, declined |-> declined]
Prepare(seed, unready) == PrepareOr(seed, DOMAIN seed, unready, unready)
Unrecorded(seed, unready) == PrepareOr(seed, {}, unready, unready)

\* The prepared request must be the one that was asked for.
Vet == [kind |-> "vet"]

\* context.record_created(..)
Record(roles) == [kind |-> "record", records |-> roles]

\* Out-of-band observation of every role of `want`.
Observe(want, unseen) == [kind |-> "observe", want |-> want, unseen |-> unseen]
\* A question to the fixture whose answer is no content (a version).
Ask(unseen) == Observe(Nothing, unseen)

\* Content written to, or confirmed in, a temporary resource; `children` are
\* the entries written below a directory.
Furnish(role, children, unseen) ==
    [kind |-> "furnish", role |-> role, children |-> children, unseen |-> unseen]
Confirm(role, unseen) == [kind |-> "confirm", role |-> role, unseen |-> unseen]

\* A provider call that must succeed.  It opens and closes sessions (writers,
\* temporary resources), named by their role; `owned` are the sessions the
\* failure keeps when the call returns an error, `learns` the roles whose path
\* is known, and recorded, only from the answer.  The answer is judged: the check
\* compares it and may fail over it.
CallOn(effect, opens, closes, owned, learns) ==
    [kind |-> "call", effect |-> effect, opens |-> opens, closes |-> closes,
     owned |-> owned, learns |-> learns, claims |-> FALSE, judged |-> TRUE]
\* The same, and any answer but an error is taken as it is.
Trusting(call) == [call EXCEPT !.judged = FALSE]
\* A call with neither session nor recovery: delete, rename, create_directory.
Call(effect) == CallOn(effect, {}, {}, {}, {})
\* A question to the provider: stat, read, list, properties.
Query == Call(Nothing)
\* A whole-file write or copy: a session lives only inside a failure of it.
Publish(effect, role) == CallOn(effect, {role}, {role}, {role}, {})
\* Resources a call names and must leave as they are.
Same(roles) == [r \in roles |-> r]
OpenWriter(role) == Trusting(CallOn(Same({role}), {role}, {}, {role}, {}))
Stream(role) == Trusting(CallOn(Same({role}), {}, {}, {role}, {}))
Commit(role) == CallOn([r \in {role} |-> "new"], {}, {role}, {role}, {})
\* abort_async: the outcome claims what became of the target.
Abort(role) == [CallOn(Same({role}), {}, {role}, {role}, {}) EXCEPT !.claims = TRUE]

\* A temporary resource whose path is compared, and one whose path is not.
CreateJudged(role) == CallOn([r \in {role} |-> "empty"], {role}, {}, {role}, {role})
CreateTemp(role) == Trusting(CreateJudged(role))
CleanTree(role, children) ==
    Trusting(CallOn([r \in {role} \cup children |-> "absent"], {}, {role}, {role}, {}))
CleanTemp(role) == CleanTree(role, {})
Move(from, to) == [r \in {from, to} |-> IF r = from THEN "absent" ELSE from]
Keep(from, to) == CallOn(Move(from, to), {}, {from}, {from, to}, {to})
Persist(from, to) == CallOn(Move(from, to), {}, {from}, {from}, {})

\* A provider call that must be refused.  `carries` is the session the
\* refusal may own and `owned` the one the failure keeps over a wrong refusal;
\* a call that succeeds instead opens `admits`, records `learns` and leaves
\* `accepted` in the failure.  A gate asks for a capability that is not
\* advertised.
RefuseOn(touches, carries, owned, accepted, gate) ==
    [kind |-> "refuse", touches |-> touches, carries |-> carries,
     owned |-> owned, admits |-> accepted, accepted |-> accepted, learns |-> {},
     gate |-> gate]
Refuse(touches) == RefuseOn(touches, {}, {}, {}, FALSE)
RefuseWrite(role) == RefuseOn({role}, {role}, {role}, {}, FALSE)
Gate(touches) == RefuseOn(touches, {}, {}, {}, TRUE)
\* A writer nobody can open: one that is opened all the same is dropped.
GateOpen(role) == [RefuseOn({role}, {}, {role}, {}, TRUE) EXCEPT !.admits = {role}]
\* A temporary resource nobody can create: one that is created all the same is
\* dropped, its path recorded.
GateTemp(role) == [GateOpen(role) EXCEPT !.learns = {role}]

\* finish_expected_write_failure: close the session a refusal may own.
Settle(role) == [kind |-> "settle", role |-> role]

\* A program: its sections, the outcome it reports when it gets to the end,
\* and the content of the roles that outcome vouches for.  An early return
\* leaves its section.
Program(sections, outcome, promise) ==
    [sections |-> sections, outcome |-> outcome, promise |-> promise]
Check(steps, outcome, promise) == Program(<<steps>>, outcome, promise)
Rejected(steps) == Check(steps, "RejectedAsExpected", Nothing)
Outright(outcome) == Program(<<>>, outcome, Nothing)
\* The program of a check under its key: identity, suite and features.
Named(key, program) ==
    [id |-> key.check, mode |-> key.mode, has |-> key.has,
     sections |-> program.sections, outcome |-> program.outcome,
     promise |-> program.promise]
=============================================================================
