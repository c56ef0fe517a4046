----------------------------- MODULE StoreHistory -----------------------------
(***************************************************************************)
(* The history accumulator of packages/store/src/lib/Store.ts, as one sees *)
(* it who listens to the changes of the user: the store gathers what has   *)
(* changed and tells its listeners in a later frame.                       *)
(*                                                                         *)
(* Of whatever has a store and a history, history holds the entries that   *)
(* its listener has not heard of: those of source user and scope document, *)
(* with NoChanges between two that remote changes separate.  Entries of    *)
(* one source are squashed.                                                *)
(***************************************************************************)
EXTENDS Integers, Sequences, SequencesExt, RecordsDiff

\* An entry joins the last one, unless a remote change came between.
WithEntry(history, entry) ==
    LET n == Len(history)
    IN  IF n > 0 /\ history[n] # NoChanges
          THEN [history EXCEPT ![n] = Squash(@, entry)]
          ELSE Append(history, entry)

\* The user changes one record, or several at once.
UserChange(c, next) ==
    [c EXCEPT !.store = next,
              !.history = WithEntry(@, Between(c.store, next))]

\* mergeRemoteChanges: the listener does not hear of them.
RemoteChange(c, next) ==
    [c EXCEPT !.store = next,
              !.history = IF c.store = next \/ @ = <<>> THEN @
                          ELSE Append(@, NoChanges)]

HasUnflushedChanges(c) ==
    \E i \in DOMAIN c.history : c.history[i] # NoChanges

\* Nobody is told of an entry that says nothing.
Hear(entries, entry) ==
    IF entry = NoChanges THEN entries ELSE Append(entries, entry)

\* What _flushHistory tells, entry by entry.
Heard(history) == FoldLeft(Hear, <<>>, history)
=============================================================================
