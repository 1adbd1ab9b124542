--------------------------- MODULE BaseException ---------------------------
(***************************************************************************)
(* base_exception: rules that keep a document from being confirmed.  The   *)
(* rules found violated are stored on the document, whose user may ignore  *)
(* them unless one is blocking.  Each Odoo worker keeps the active rules in*)
(* an ormcache; a rule that is edited clears it, and the other workers are *)
(* signalled.  Odoo sends the signal after the commit, and a request looks *)
(* at the signals before the query that fixes its snapshot; so a request   *)
(* may begin between an edit and its signal, or look just before the edit. *)
(*                                                                         *)
(* The document is that of the module's tests (a purchase that checks its  *)
(* exceptions in a constraint on ignore_exception, line_ids and state).    *)
(* A request is three steps, so that requests of several workers overlap:  *)
(* it looks at the signals, it takes its snapshot, and it acts.            *)
(***************************************************************************)
EXTENDS Naturals, FiniteSets

CONSTANTS ExceptionRules,  \* exception.rule records
          Blocking,        \* those with is_blocking
          Workers,         \* Odoo worker processes
          Unset            \* an empty cache

ASSUME ExceptionAssumption == Blocking \subseteq ExceptionRules

VARIABLES active,     \* rules that are active, committed
          violated,   \* rules the document's data violate, active or not
          exceptions, \* exception_ids of the document
          ignore,     \* ignore_exception
          confirmed,  \* state = "purchase"
          cache,      \* worker -> the rules in its ormcache, or Unset
          unsent,     \* workers that have committed an edit and not yet told the others
          signalled,  \* workers that have an invalidation signal waiting
          looked,     \* workers whose request has looked at the signals and has no snapshot yet
          late,       \* history: those whose request looked before an edit it may see was signalled
          snap        \* worker -> the active rules its request sees, or Unset before its snapshot

exceptionVars == <<active, violated, exceptions, ignore, confirmed, cache, unsent, signalled,
                   looked, late, snap>>

doc == <<violated, exceptions, ignore, confirmed>>

ExceptionInit ==
  /\ active \in SUBSET ExceptionRules
  /\ violated \in SUBSET ExceptionRules
  /\ exceptions = {} /\ ignore = FALSE /\ confirmed = FALSE
  /\ cache = [w \in Workers |-> Unset]
  /\ unsent = {} /\ signalled = {} /\ looked = {} /\ late = {}
  /\ snap = [w \in Workers |-> Unset]

\* Odoo (external): check_signaling, at the beginning of a request.
Look(w) ==
  /\ snap[w] = Unset /\ w \notin looked \cup unsent
  /\ looked' = looked \cup {w}
  /\ late' = IF unsent = {} THEN late \ {w} ELSE late \cup {w}
  /\ cache' = IF w \in signalled THEN [cache EXCEPT ![w] = Unset] ELSE cache
  /\ signalled' = signalled \ {w}
  /\ UNCHANGED <<active, doc, unsent, snap>>

\* Odoo (external): the first query of the request.
Begin(w) ==
  /\ w \in looked
  /\ looked' = looked \ {w}
  /\ snap' = [snap EXCEPT ![w] = active]
  /\ UNCHANGED <<active, doc, cache, unsent, signalled, late>>

\* The request of w switches these rules on or off; PostgreSQL refuses it those
\* that another one has switched since its snapshot.
Switched(w, rs) ==
  /\ snap[w] # Unset
  /\ \A r \in rs : r \in snap[w] <=> r \in active
  /\ active' = (active \ rs) \cup (rs \ active)
  /\ snap' = [snap EXCEPT ![w] = Unset]
  /\ UNCHANGED doc

\* A mutant: clear_cache is not called.
EditRules_Uncleared(w, rs) ==
  Switched(w, rs) /\ UNCHANGED <<cache, unsent, signalled, looked, late>>

\* create, write and unlink of exception.rule clear the cache of the worker.
EditRules(w, rs) ==
  /\ Switched(w, rs)
  /\ cache' = [cache EXCEPT ![w] = Unset]
  /\ unsent' = unsent \cup {w}
  /\ late' = late \cup looked
  /\ UNCHANGED <<signalled, looked>>

\* Odoo (external): signal_changes, after the commit.  The worker takes the number of
\* its own signal for the last one it has seen, and so misses those sent meanwhile.
Signal(w) ==
  /\ w \in unsent
  /\ unsent' = unsent \ {w}
  /\ signalled' = (signalled \cup Workers) \ {w}
  /\ UNCHANGED <<active, doc, cache, looked, late, snap>>

\* _get_cached_rules_for_domain: the cached rules, or those of the snapshot.
CachedRules(w) == IF cache[w] = Unset THEN snap[w] ELSE cache[w]

\* The request of w ends; checked: it has looked the rules up.
Respond(w, checked) ==
  /\ snap' = [snap EXCEPT ![w] = Unset]
  /\ cache' = IF checked THEN [cache EXCEPT ![w] = CachedRules(w)] ELSE cache
  /\ UNCHANGED <<active, unsent, signalled, looked, late>>

\* _get_exceptions: the domain ignore_exception = False of every kind of rule
\* makes a document that ignores its exceptions violate none.
Detected(w, v, ign) == IF ign THEN {} ELSE v \cap CachedRules(w)

\* A mutant: resolved exceptions are kept.
UpdatedExceptions_AddOnly(w, found) == exceptions \cup found

\* detect_exceptions: only the rules that were evaluated are added or removed.
UpdatedExceptions(w, found) == (exceptions \ (CachedRules(w) \ found)) \cup found

\* Values of the document after a write of a constrained field: the check runs
\* on confirmed documents, and raises unless the caller disabled it, which
\* undoes the write and the exceptions that were just stored.
CheckedWrite(w, v, ign, conf, raise) ==
  LET found == Detected(w, v, ign)
  IN /\ violated' = v /\ ignore' = ign /\ confirmed' = conf
     /\ conf /\ raise => found = {}
     /\ exceptions' = IF conf THEN UpdatedExceptions(w, found) ELSE exceptions
     /\ Respond(w, conf)

Confirm(w, raise) ==
  /\ snap[w] # Unset
  /\ CheckedWrite(w, violated, ignore, TRUE, raise)

\* button_confirm or an edit raises ValidationError: nothing is written.
Refused(w) ==
  /\ snap[w] # Unset /\ Detected(w, violated, ignore) # {}
  /\ Respond(w, TRUE) /\ UNCHANGED doc

EditLines(w, v) ==
  /\ snap[w] # Unset
  /\ CheckedWrite(w, v, ignore, confirmed, TRUE)

\* Data the constraint does not watch, of the partner for instance.
EditElsewhere(w, v) ==
  /\ snap[w] # Unset
  /\ violated' = v /\ UNCHANGED <<exceptions, ignore, confirmed>>
  /\ Respond(w, FALSE)

\* detect_exceptions called on its own, as the dependent modules do before they
\* open the popup.
Detect(w) ==
  /\ snap[w] # Unset
  /\ exceptions' = UpdatedExceptions(w, Detected(w, violated, ignore))
  /\ Respond(w, TRUE)
  /\ UNCHANGED <<violated, ignore, confirmed>>

\* action_ignore_exceptions looks at the stored exceptions.
Ignore(w) ==
  /\ snap[w] # Unset /\ exceptions \cap Blocking = {}
  /\ CheckedWrite(w, violated, TRUE, confirmed, TRUE)

\* The box is cleared again.
Unignore(w) ==
  /\ snap[w] # Unset /\ ignore
  /\ CheckedWrite(w, violated, FALSE, confirmed, TRUE)

BackToDraft(w) ==
  /\ snap[w] # Unset
  /\ CheckedWrite(w, violated, ignore, FALSE, TRUE)

ExceptionNext ==
  \E w \in Workers :
      \/ Look(w) \/ Begin(w) \/ Signal(w)
      \/ Refused(w) \/ Detect(w) \/ Ignore(w) \/ Unignore(w) \/ BackToDraft(w)
      \/ \E raise \in BOOLEAN : Confirm(w, raise)
      \/ \E v \in SUBSET ExceptionRules : EditLines(w, v) \/ EditElsewhere(w, v)
      \/ \E rs \in SUBSET ExceptionRules : EditRules(w, rs)

ExceptionSpec == ExceptionInit /\ [][ExceptionNext]_exceptionVars

----------------------------------------------------------------------------
(* Properties *)

\* Rules, document and caches are what the models declare.
ExceptionTypeOK ==
  /\ active \subseteq ExceptionRules /\ violated \subseteq ExceptionRules
  /\ exceptions \subseteq ExceptionRules
  /\ ignore \in BOOLEAN /\ confirmed \in BOOLEAN
  /\ cache \in [Workers -> (SUBSET ExceptionRules) \cup {Unset}]
  /\ unsent \subseteq Workers /\ signalled \subseteq Workers
  /\ looked \subseteq Workers /\ late \subseteq Workers
  /\ snap \in [Workers -> (SUBSET ExceptionRules) \cup {Unset}]

\* A request evaluates the rules as they are in its own snapshot: a rule that
\* was edited and signalled before the request began, in whatever worker, counts,
\* and one that a later edit changes counts as it was (clear_cache in create, write
\* and unlink of exception.rule).  Excepted are the requests that an edit catches
\* between Odoo's look at the signals and the signal of the edit.
CacheFollowsRules ==
  \A w \in Workers :
     snap[w] # Unset /\ cache[w] # Unset /\ w \notin late => cache[w] = snap[w]

\* The stored exceptions of rules that are evaluated are exactly the present
\* ones after a check, so that a stored blocking exception which keeps the
\* document from being ignored is never one that was found to be resolved.
\* A document that is ignored keeps none of them.
StoredIsCurrent ==
  [][\A w \in Workers \ late :
        snap[w] # Unset /\ snap'[w] = Unset /\ exceptions' # exceptions =>
        exceptions' \cap snap[w] = IF ignore' THEN {} ELSE violated' \cap snap[w]]_exceptionVars

============================================================================
