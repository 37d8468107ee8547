------------------------------ MODULE Logging ------------------------------
(***************************************************************************)
(* The loggers of the process, and what nose does to them: its own handler *)
(* on the logger "nose" and on those named with --debug, and the handler   *)
(* of the logcapture plugin on every logger a record may stop at.          *)
(*                                                                         *)
(* A logger is named by the sequence of the parts of its name, the root by *)
(* the empty one.  A tree gives every logger there is its handlers and     *)
(* whether its records go on to the next one above.  Handlers: "memory" is *)
(* that of this run, "old" one an earlier run in the process has left,     *)
(* "stream" and "file" are of the kind configureLogging makes, "other" is  *)
(* the program's under test.  Levels are left out: records are taken to be *)
(* severe enough.                                                          *)
(***************************************************************************)
EXTENDS Lists, FiniteSets

Root == <<>>
Nose == <<"nose">>

Logger(propagate, handlers) == [propagate |-> propagate, handlers |-> handlers]

Handlers == {"memory", "old", "stream", "file", "other"}
IsName(name) == name \in Seq(ToSet(name))
IsTree(tree) ==
  /\ Root \in DOMAIN tree /\ \A n \in DOMAIN tree : IsName(n)
  /\ tree \in [DOMAIN tree -> [propagate : BOOLEAN, handlers : Seq(Handlers)]]

\* getLogger makes the logger when there is none.
getLogger(tree, names) ==
  [n \in DOMAIN tree \cup names |->
     IF n \in DOMAIN tree THEN tree[n] ELSE Logger(TRUE, <<>>)]

addHandler(logger, handler) == [logger EXCEPT !.handlers = Append(@, handler)]

\* Config.configureLogging: kind is "file" with --debug-log, debug the loggers
\* of --debug.  One that has a handler already keeps it alone.
configureLogging(tree, kind, debug) ==
  LET known == getLogger(tree, {Nose} \cup debug)
      own == [known[Nose] EXCEPT !.propagate = FALSE]
      nose == IF Contains(own.handlers, kind) THEN own ELSE addHandler(own, kind)
  IN [n \in DOMAIN known |->
        CASE n = Nose -> nose
          [] n \in debug /\ ~IsPrefix(Nose, n) /\ known[n].handlers = <<>> ->
               addHandler(known[n], kind)
          [] OTHER -> known[n]]

\* Handlers are removed from the list that is iterated: the second of any two
\* is passed over.
clear(handlers) ==
  FlattenSeq([i \in DOMAIN handlers |-> IF i % 2 = 0 THEN <<handlers[i]>> ELSE <<>>])

Cleared(tree) == [n \in DOMAIN tree |-> [tree[n] EXCEPT !.handlers = clear(@)]]

IsMemory(handler) == handler \in {"memory", "old"}

WithoutMemory(handlers) == Keep(handlers, {h \in ToSet(handlers) : ~IsMemory(h)})

Replaced(logger) ==
  addHandler(Logger(logger.propagate, WithoutMemory(logger.handlers)), "memory")

\* Mutant of setupLoghandler: loggers that do not propagate are not patched.
setupLoghandlerAtRoot(tree, clearing) ==
  LET some == IF clearing THEN Cleared(tree) ELSE tree
  IN [some EXCEPT ![Root] = Replaced(@)]

setupLoghandler(tree, clearing) ==
  LET some == IF clearing THEN Cleared(tree) ELSE tree
  IN [n \in DOMAIN some |->
        IF n = Root \/ ~some[n].propagate THEN Replaced(some[n]) ELSE some[n]]

-----------------------------------------------------------------------------
(* Filters: a set of names, some of them prefixed with "-".                *)

Filter(out, name) == [out |-> out, name |-> name]

\* Record names are those of loggers, "root" for the root.
RecordName(logger) == IF logger = Root THEN <<"root">> ELSE logger

partition(filters, out) == {f.name : f \in {g \in filters : g.out = out}}

any_match(names, record) == \E n \in names : IsPrefix(n, record)

allow(filters, logger) ==
  LET inclusive == partition(filters, FALSE)
      exclusive == partition(filters, TRUE)
      record == RecordName(logger)
  IN /\ inclusive = {} \/ any_match(inclusive, record)
     /\ ~any_match(exclusive, record)

-----------------------------------------------------------------------------
(* A record goes to the handlers of its logger and of those above it, up   *)
(* to the first that does not propagate.                                   *)

ReachedBy(tree, logger) ==
  {p \in DOMAIN tree :
     /\ IsPrefix(p, logger)
     /\ \A q \in DOMAIN tree :
          IsPrefix(q, logger) /\ Len(q) > Len(p) => tree[q].propagate}

\* How often a record of the logger gets into the buffer of this run.
Captures(tree, filters, logger) ==
  LET Memories(p) == {i \in DOMAIN tree[p].handlers : tree[p].handlers[i] = "memory"}
  IN IF allow(filters, logger)
     THEN Cardinality(UNION {{p} \X Memories(p) : p \in ReachedBy(tree, logger)})
     ELSE 0

=============================================================================
