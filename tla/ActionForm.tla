------------------------------- MODULE ActionForm -------------------------------
(***************************************************************************)
(* <TheoForm> of @theokit/plugin-forms: a react-hook-form form over a      *)
(* server action (components/TheoForm.tsx), the conversion of its values   *)
(* to multipart (adapter/valuesToFormData.ts) and the way back of the      *)
(* server's field errors (adapter/applyActionErrorsToForm.ts,              *)
(* hooks/useTheoField.ts).  Nothing stops a second submit while the first  *)
(* is pending; answers come in any order, after edits, a reset, or the end *)
(* of the page.  react-hook-form, useAction and the server are external.   *)
(***************************************************************************)
EXTENDS Naturals, Sequences, SequencesExt

CONSTANTS
    Names,      \* values of the text field "name" ("" is one the schema refuses)
    TagLists,   \* values of the array field "tags"
    Cities,     \* values of "home.city", NoCity when the optional object is left out
    NoCity,
    FileLists,  \* values of the file field "photos"
    Answers,    \* what the server may answer: [shape, fields]
    MaxSubmits, MaxEdits

Paths == {<<"name">>, <<"tags">>, <<"home", "city">>, <<"photos">>}

ASSUME FormAssumption ==
    /\ MaxSubmits \in Nat /\ MaxEdits \in Nat
    /\ Names \subseteq STRING /\ TagLists \subseteq Seq(STRING)
    /\ Cities \subseteq STRING /\ FileLists \subseteq Seq(STRING)
    /\ "" \in Names /\ <<>> \in TagLists /\ NoCity \in Cities /\ <<>> \in FileLists
    /\ \A answer \in Answers : \A f \in answer.fields :
          f.key \in Paths \cup {<<"">>, <<"missing">>} /\ f.messages \in Nat

VARIABLES
    rendered,  \* [state, schema, multipart]: the props <TheoForm> was rendered with
    values,    \* what react-hook-form holds, file inputs as FileList
    errors,    \* formState.errors: [path, message, from] (from: the submit it answers)
    submits,   \* submit -> [status, sent, body, stale, result]
    outcome,   \* useAction's state: "idle", "pending", "success", "error"
    edits      \* number of edits and resets

formVars == <<rendered, values, errors, submits, outcome, edits>>

SubmitIds == 1..MaxSubmits
HeldValues == [name : Names, tags : TagLists, city : Cities, photos : FileLists,
         form : {"FileList", "Array"}]
Blank0(type) == [name |-> "", tags |-> <<>>, city |-> NoCity, photos |-> <<>>, form |-> type]
NoSubmit == [status |-> "idle", sent |-> Blank0("Array"), body |-> <<>>, stale |-> {},
             result |-> "none"]

FormTypeOK ==
    /\ rendered.state \in {"closed", "open", "threw", "gone"}
    /\ values \in HeldValues
    /\ errors \subseteq [path : Paths \cup {<<"root">>, <<"missing">>},
                         message : {"first", "required"}, from : {0} \cup SubmitIds]
    /\ \A s \in SubmitIds : submits[s].status \in {"idle", "pending", "settled"}
    /\ outcome \in {"idle", "pending", "success", "error"}

FormInit ==
    /\ rendered = [state |-> "closed", schema |-> FALSE, multipart |-> FALSE]
    /\ values = Blank0("FileList")
    /\ errors = {}
    /\ submits = [s \in SubmitIds |-> NoSubmit]
    /\ outcome = "idle"
    /\ edits = 0

----------------------------------------------------------------------------
(* valuesToFormData: one entry per value, in the order of the schema.      *)
Entry(key, text) == [key |-> key, text |-> text]
EncodeScalar(path, text) == <<Entry(path, text)>>
(* An array repeats its key; an empty one emits nothing.                   *)
MutAppendArray(path, items) ==
    IF items = <<>> THEN <<Entry(path, "")>>
    ELSE [i \in DOMAIN items |-> Entry(path, items[i])]
AppendArray(path, items) == [i \in DOMAIN items |-> Entry(path, items[i])]
AppendObject(path, city) == IF city = NoCity THEN <<>> ELSE EncodeScalar(path, city)
ValuesToFormData(v) ==
    EncodeScalar(<<"name">>, v.name) \o AppendArray(<<"tags">>, v.tags)
        \o AppendObject(<<"home", "city">>, v.city) \o AppendArray(<<"photos">>, v.photos)

(* normaliseFileFields: a FileList becomes an array before the schema.     *)
NormaliseValue(v) == [v EXCEPT !.form = "Array"]

(* The resolver: what the schema says of the (normalised) values.          *)
Resolve0(v) ==
    IF rendered.schema /\ v.name = "" THEN {[path |-> <<"name">>, message |-> "required", from |-> 0]}
    ELSE {}

(* What the server makes of a body: its own reconstruction by the schema.  *)
(* getAll(path): the texts of the path's entries, in their order.          *)
EntriesAt(body, path) == {i \in DOMAIN body : body[i].key = path}
TextsAt(body, path) ==
    LET at == EntriesAt(body, path)
        nth(n) == CHOOSE i \in at : Cardinality({j \in at : j <= i}) = n
    IN [n \in 1..Cardinality(at) |-> body[nth(n)].text]
Rebuilt(body) ==
    [name |-> TextsAt(body, <<"name">>)[1], tags |-> TextsAt(body, <<"tags">>),
     city |-> IF TextsAt(body, <<"home", "city">>) = <<>> THEN NoCity
              ELSE TextsAt(body, <<"home", "city">>)[1],
     photos |-> TextsAt(body, <<"photos">>), form |-> "Array"]

----------------------------------------------------------------------------
(* <TheoForm> renders, or throws at render: multipart needs a schema.      *)
RenderForm(schema, multipart) ==
    /\ rendered.state = "closed"
    /\ rendered' = [state |-> IF multipart /\ ~schema THEN "threw" ELSE "open",
                schema |-> schema, multipart |-> multipart]
    /\ UNCHANGED <<values, errors, submits, outcome, edits>>

(* An edit clears the field's error (it is validated again); answers under *)
(* way are about a value the field no longer has.                          *)
Stales(paths) == [s \in SubmitIds |->
    IF submits[s].status = "pending" THEN [submits[s] EXCEPT !.stale = @ \cup paths] ELSE submits[s]]

EditField(path, v) ==
    /\ rendered.state = "open" /\ edits < MaxEdits /\ v # values
    /\ v \in HeldValues /\ v.form = "FileList"
    /\ path # <<"name">> => v.name = values.name
    /\ path # <<"tags">> => v.tags = values.tags
    /\ path # <<"home", "city">> => v.city = values.city
    /\ path # <<"photos">> => v.photos = values.photos
    /\ values' = v
    /\ errors' = {e \in errors : e.path # path}
    /\ submits' = Stales({path})
    /\ edits' = edits + 1
    /\ UNCHANGED <<rendered, outcome>>

(* reset of the context: the action's state and the form's, together.      *)
ResetForm ==
    /\ rendered.state = "open" /\ edits < MaxEdits
    /\ values' = Blank0("FileList")
    /\ errors' = {}
    /\ submits' = Stales(Paths \cup {<<"root">>})
    /\ outcome' = "idle"
    /\ edits' = edits + 1
    /\ UNCHANGED rendered

(* handleSubmit: the resolver's errors replace all others, or handleValid  *)
(* converts the values and calls the action.                               *)
SubmitForm(s) ==
    /\ rendered.state = "open" /\ submits[s] = NoSubmit
    /\ \A q \in 1..(s - 1) : submits[q] # NoSubmit
    /\ LET v == IF rendered.schema THEN NormaliseValue(values) ELSE values
           refused == Resolve0(v)
       IN /\ errors' = refused
          /\ IF refused # {}
             THEN /\ submits' = [submits EXCEPT ![s] = [NoSubmit EXCEPT !.status = "settled",
                                                                         !.result = "invalid"]]
                  /\ UNCHANGED outcome
             ELSE /\ submits' = [submits EXCEPT ![s] =
                        [status |-> "pending", sent |-> v, stale |-> {}, result |-> "none",
                         body |-> IF rendered.multipart THEN ValuesToFormData(v) ELSE <<>>]]
                  /\ outcome' = "pending"
    /\ UNCHANGED <<rendered, values, edits>>

(* extractFieldsFromError: the fields map, on the error or one level down. *)
ExtractFields(answer) == IF answer.shape \in {"flat", "envelope"} THEN answer.fields ELSE {}
HasFields(answer) == answer.shape \in {"flat", "envelope"}

(* applyActionErrorsToForm: the first message of each path that has one;   *)
(* the empty key is the form's own error.                                  *)
Hydrated(fields, s) ==
    {[path |-> IF f.key = <<"">> THEN <<"root">> ELSE f.key, message |-> "first", from |-> s] :
        f \in {g \in fields : g.messages > 0}}

(* The action settles: onSuccess, errors on the fields, or a rethrow.      *)
ActionSettles(s, answer) ==
    /\ submits[s].status = "pending"
    /\ LET fields == Hydrated(ExtractFields(answer), s)
           paths == {e.path : e \in fields}
       IN /\ submits' = [submits EXCEPT ![s].status = "settled",
                ![s].result = IF answer.shape = "ok" THEN "onSuccess"
                              ELSE IF HasFields(answer) THEN "hydrated" ELSE "rethrown"]
          /\ errors' = IF answer.shape = "ok" \/ rendered.state = "gone" THEN errors
                       ELSE {e \in errors : e.path \notin paths} \cup fields
    /\ outcome' = IF answer.shape = "ok" THEN "success" ELSE "error"
    /\ UNCHANGED <<rendered, values, edits>>

(* The page unmounts: answers under way still come.                        *)
ClosePage ==
    /\ rendered.state = "open"
    /\ rendered' = [rendered EXCEPT !.state = "gone"]
    /\ errors' = {}
    /\ UNCHANGED <<values, submits, outcome, edits>>

(* useTheoField: the error a field shows, by its own path only.            *)
FieldError(path) == {e \in errors : e.path = IF path = <<"">> THEN <<"root">> ELSE path}

FormNext ==
    \/ \E schema, multipart \in BOOLEAN : RenderForm(schema, multipart)
    \/ \E path \in Paths, v \in HeldValues : EditField(path, v)
    \/ ResetForm
    \/ \E s \in SubmitIds : SubmitForm(s)
    \/ \E s \in SubmitIds, answer \in Answers : ActionSettles(s, answer)
    \/ ClosePage

FormSpec == FormInit /\ [][FormNext]_formVars

----------------------------------------------------------------------------
(* A multipart body says the values the schema accepted: what the server   *)
(* rebuilds from it is what the form sent, for every kind of field.        *)
BodySaysValues ==
    \A s \in SubmitIds : submits[s].body # <<>> => Rebuilt(submits[s].body) = submits[s].sent

(* A field shows one error at most, and one the server gave it is about    *)
(* the value the field still holds, unless the user went on before the     *)
(* answer came (an edit, a reset).                                         *)
ErrorsAreAboutValues ==
    \A path \in Paths : \A e \in FieldError(path) :
        /\ \A other \in FieldError(path) : other = e
        /\ e.from # 0 /\ path \notin submits[e.from].stale
              => /\ path = <<"name">> => submits[e.from].sent.name = values.name
                 /\ path = <<"tags">> => submits[e.from].sent.tags = values.tags
                 /\ path = <<"home", "city">> => submits[e.from].sent.city = values.city
                 /\ path = <<"photos">> => submits[e.from].sent.photos = values.photos

(* A schema keeps what it refuses from the action, with an error to show;  *)
(* files reach the schema and the action as an array.                      *)
RefusedStaysHere ==
    \A s \in SubmitIds :
        rendered.schema /\ submits[s].status = "pending"
            => submits[s].sent.name # "" /\ submits[s].sent.form = "Array"

(* What the form promises its user, part by part.                          *)
FormKept == FormTypeOK /\ BodySaysValues /\ ErrorsAreAboutValues /\ RefusedStaysHere
=============================================================================
