------------------------------- MODULE Document -------------------------------
(***************************************************************************)
(* The document aggregate of knowledge-core (cqrs/aggregate.rs): its       *)
(* state, the commands it accepts or refuses, the event a command emits    *)
(* and the state an event leads to.  Pure operators, no variables.         *)
(*                                                                         *)
(* Data kept: the identity, the status, the version and two of the fields. *)
(* "title" stands for the text fields (title, content, content type) and   *)
(* carries the title's emptiness rule; "metadata" stands for the free JSON *)
(* field, the only one whose value may be the JSON null.                   *)
(***************************************************************************)
EXTENDS Naturals

CONSTANTS
  DocumentIds,   \* non-empty document identifiers
  NoId,          \* the empty identifier of a document not created yet
  Texts,         \* non-empty field values
  Blank,         \* the empty text, and the default metadata {}
  Null,          \* the JSON value null
  Keep           \* Option::None: "leave this field alone"

ASSUME DocumentConstants ==
  /\ NoId \notin DocumentIds
  /\ {Blank, Null, Keep} \cap Texts = {}
  /\ Blank # Null /\ Blank # Keep /\ Null # Keep

Fields == {"title", "metadata"}
Values == Texts \cup {Blank, Null}

Statuses == {"Pending", "Parsing", "Indexed", "Active", "Archived", "Deleted"}

CanTransitionTo(from, to) ==
  <<from, to>> \in
    { <<"Pending", "Parsing">>, <<"Parsing", "Indexed">>, <<"Indexed", "Active">>,
      <<"Active", "Archived">>, <<"Pending", "Deleted">>, <<"Parsing", "Deleted">>,
      <<"Indexed", "Deleted">>, <<"Active", "Deleted">>, <<"Archived", "Deleted">> }

Documents == [ id      : DocumentIds \cup {NoId},
               status  : Statuses,
               fields  : [Fields -> Values],
               version : Nat ]

NewDocument == [ id      |-> NoId,
                 status  |-> "Pending",
                 fields  |-> [f \in Fields |-> Blank],
                 version |-> 0 ]

-----------------------------------------------------------------------------
(* Commands.  All four share one shape; "set" is what UpdateDocumentData   *)
(* and CreateDocumentData say of each field.                               *)

Ops == {"Create", "Update", "Publish", "Delete"}

Commands == [ op  : Ops,
              id  : DocumentIds \cup {NoId},
              set : [Fields -> Values \cup {Keep}] ]

\* What a client can put in the two field positions: a title is a string, so
\* never null; a created document gives both fields, an update may omit any.
FieldInputs(op, metadata) ==
  { set \in [Fields -> Values \cup {Keep}] :
      /\ set["title"] \in Texts \cup {Blank, Keep}
      /\ set["metadata"] \in metadata \cup {Keep}
      /\ op = "Create" => \A f \in Fields : set[f] # Keep
      /\ op \in {"Publish", "Delete"} => \A f \in Fields : set[f] = Keep }

CreateRefused(doc, cmd) == doc.id # NoId \/ cmd.set["title"] = Blank

UpdateRefused(doc, cmd) ==
  \/ doc.id = NoId
  \/ doc.status = "Archived"
  \/ cmd.set["title"] = Blank

PublishRefused(doc) == doc.id = NoId \/ ~CanTransitionTo(doc.status, "Active")

DeleteRefused(doc) ==
  \/ doc.id = NoId
  \/ doc.status = "Deleted"
  \/ ~CanTransitionTo(doc.status, "Deleted")

Refused(doc, cmd) ==
  \/ cmd.op = "Create"  /\ CreateRefused(doc, cmd)
  \/ cmd.op = "Update"  /\ UpdateRefused(doc, cmd)
  \/ cmd.op = "Publish" /\ PublishRefused(doc)
  \/ cmd.op = "Delete"  /\ DeleteRefused(doc)

-----------------------------------------------------------------------------
(* Events.  An update records, for every field it really changes, the old  *)
(* value and the new one (ChangeSet::add_change drops a change to the same *)
(* value); an unchanged field is Keep in both.                             *)

Kinds == {"Created", "Updated", "Published", "Deleted"}

Events == [ kind : Kinds,
            id   : DocumentIds \cup {NoId},
            old  : [Fields -> Values \cup {Keep}],
            new  : [Fields -> Values \cup {Keep}] ]

Untouched == [f \in Fields |-> Keep]

Changed(doc, cmd, f) == cmd.set[f] # Keep /\ cmd.set[f] # doc.fields[f]

\* handle_update returns Ok(vec![]) when nothing changes.
ChangesNothing(doc, cmd) ==
  cmd.op = "Update" /\ \A f \in Fields : ~Changed(doc, cmd, f)

CreatedEvent(cmd) ==
  [kind |-> "Created", id |-> cmd.id, old |-> Untouched, new |-> cmd.set]

UpdatedEvent(doc, cmd) ==
  [ kind |-> "Updated", id |-> doc.id,
    old  |-> [f \in Fields |-> IF Changed(doc, cmd, f) THEN doc.fields[f] ELSE Keep],
    new  |-> [f \in Fields |-> IF Changed(doc, cmd, f) THEN cmd.set[f] ELSE Keep] ]

Signal(doc, kind) ==
  [kind |-> kind, id |-> doc.id, old |-> Untouched, new |-> Untouched]

\* The event of a command that is neither refused nor without effect.
EventOf(doc, cmd) ==
  CASE cmd.op = "Create"  -> CreatedEvent(cmd)
    [] cmd.op = "Update"  -> UpdatedEvent(doc, cmd)
    [] cmd.op = "Publish" -> Signal(doc, "Published")
    [] cmd.op = "Delete"  -> Signal(doc, "Deleted")

\* An event goes through JSON on its way to apply.  A field change whose new
\* value is Some(null) is written as "new_value": null and read back as None,
\* which apply skips; a created document's metadata is not optional and keeps
\* its null.
Decoded(event) ==
  IF event.kind = "Created"
  THEN event
  ELSE [event EXCEPT !.new = [f \in Fields |-> IF @[f] = Null THEN Keep ELSE @[f]]]

\* Mistake: an update sends the document back to the parsing pipeline.
StatusAfterReset(status, kind) ==
  CASE kind \in {"Created", "Updated"} -> "Pending"
    [] kind = "Published"            -> "Active"
    [] kind = "Deleted"              -> "Deleted"

StatusAfter(status, kind) ==
  CASE kind = "Created"   -> "Pending"
    [] kind = "Updated"   -> status
    [] kind = "Published" -> "Active"
    [] kind = "Deleted"   -> "Deleted"

Apply(doc, event) ==
  [ id      |-> IF event.kind = "Created" THEN event.id ELSE doc.id,
    status  |-> StatusAfter(doc.status, event.kind),
    fields  |-> [f \in Fields |-> IF event.new[f] = Keep THEN doc.fields[f] ELSE event.new[f]],
    version |-> doc.version + 1 ]
=============================================================================
