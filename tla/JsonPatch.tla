------------------------------- MODULE JsonPatch -------------------------------
(***************************************************************************)
(* include/nlohmann/json.hpp: class json_pointer (RFC 6901), flatten and   *)
(* unflatten, and the patches of basic_json: patch (RFC 6902), diff,       *)
(* merge_patch (RFC 7396) and update.                                      *)
(*                                                                         *)
(* A pointer is a sequence of reference tokens, which are byte strings.  A *)
(* function that throws yields Throw(id) with the id of the exception.     *)
(***************************************************************************)
EXTENDS JsonSerializer

Throw(id) == <<"throw", id>>
Threw(v) == v[1] = "throw"

Tilde == 126
Dash == <<Minus>>

(***************************************************************************)
(* Reading a pointer and writing it.                                       *)
(***************************************************************************)
RECURSIVE ReplaceSubstring(_, _, _)
ReplaceSubstring(s, f, t) ==
    IF Len(s) < Len(f) THEN s
    ELSE IF SubSeq(s, 1, Len(f)) = f
    THEN t \o ReplaceSubstring(SubSeq(s, Len(f) + 1, Len(s)), f, t)
    ELSE <<s[1]>> \o ReplaceSubstring(Tail(s), f, t)

Escape(s) == ReplaceSubstring(ReplaceSubstring(s, <<Tilde>>, <<Tilde, 48>>), <<Slash>>, <<Tilde, 49>>)

Unescape(s) ==
    ReplaceSubstring(ReplaceSubstring(s, <<Tilde, 49>>, <<Slash>>), <<Tilde, 48>>, <<Tilde>>)

PointerToString(ptr) == FlattenSeq([k \in DOMAIN ptr |-> <<Slash>> \o Escape(ptr[k])])

\* Every tilde of a token is followed by 0 or 1.
WellEscaped(token) ==
    \A k \in DOMAIN token : token[k] = Tilde => At(token, k + 1) \in {48, 49}

\* split: the tokens between the slashes.
SplitPointer(s) ==
    LET slashes == {k \in DOMAIN s : s[k] = Slash}
        starts == SetToSortSeq(slashes, <)
        end(k) == IF k = Len(starts) THEN Len(s) ELSE starts[k + 1] - 1
        tokens == [k \in DOMAIN starts |-> SubSeq(s, starts[k] + 1, end(k))]
    IN  CASE s = <<>> -> <<"pointer", <<>>>>
          [] s # <<>> /\ s[1] # Slash -> Throw(107)
          [] s # <<>> /\ s[1] = Slash /\ \E k \in DOMAIN tokens : ~WellEscaped(tokens[k]) ->
                Throw(108)
          [] OTHER -> <<"pointer", [k \in DOMAIN tokens |-> Unescape(tokens[k])]>>

\* The index a token of digits stands for.
ArrayIndex(token) ==
    CASE Len(token) > 1 /\ token[1] = Zero -> Throw(106)
      [] Len(token) > 1 /\ token[1] \notin Digits -> Throw(109)
      [] \/ token = <<>>
         \/ /\ Len(token) > 1 => token[1] \in Digits \ {Zero}
            /\ \/ \E k \in DOMAIN token : token[k] \notin Digits
               \/ DigitsValue(token) >= 2 ^ IntegerBits -> Throw(404)
      [] OTHER ->
            IF DigitsValue(token) = 2 ^ IntegerBits - 1 THEN Throw(410)
            ELSE <<"index", DigitsValue(token)>>

(***************************************************************************)
(* Access to elements.                                                     *)
(***************************************************************************)
\* at(key) and at(idx), by a token.
ElementAt(v, token) ==
    LET i == ArrayIndex(token)
    IN  CASE v[1] = "object" -> IF token \in DOMAIN v[2] THEN v[2][token] ELSE Throw(403)
          [] v[1] = "array" ->
                IF token = Dash THEN Throw(402)
                ELSE IF Threw(i) THEN i
                ELSE IF i[2] >= Len(v[2]) THEN Throw(401) ELSE v[2][i[2] + 1]
          [] OTHER -> Throw(404)

GetChecked(v, ptr) ==
    FoldLeft(LAMBDA x, token : IF Threw(x) THEN x ELSE ElementAt(x, token), v, ptr)

\* The value with the element of that token replaced.
Replaced(v, token, x) ==
    IF v[1] = "object" THEN Object(With(v[2], token, x))
    ELSE Array([v[2] EXCEPT ![ArrayIndex(token)[2] + 1] = x])

\* at(ptr) = x: the value afterwards, where x may be an exception instead.
RECURSIVE AssignAt(_, _, _)
AssignAt(v, ptr, x) ==
    IF ptr = <<>> \/ Threw(x) THEN x
    ELSE LET child == ElementAt(v, Head(ptr))
             new == IF Threw(child) THEN child ELSE AssignAt(child, Tail(ptr), x)
         IN  IF Threw(new) THEN new ELSE Replaced(v, Head(ptr), new)

\* json_pointer::contains, one token: the element, Discarded for false.
ContainedElement(v, token) ==
    LET plain == \/ Len(token) = 1 /\ token[1] \in Digits
                 \/ /\ Len(token) > 1 /\ token[1] \in 49 .. 57
                    /\ \A k \in DOMAIN token : token[k] \in Digits
        i == ArrayIndex(token)
    IN  CASE v[1] = "object" -> IF token \in DOMAIN v[2] THEN v[2][token] ELSE Discarded
          [] v[1] = "array" ->
                IF token # <<>> /\ ~plain THEN Discarded
                ELSE IF Threw(i) THEN i
                ELSE IF i[2] >= Len(v[2]) THEN Discarded ELSE v[2][i[2] + 1]
          [] OTHER -> Discarded

PointerContains(v, ptr) ==
    FoldLeft(LAMBDA x, token : IF Threw(x) \/ x = Discarded THEN x ELSE ContainedElement(x, token),
             v, ptr)

\* operator[](idx): an array that is too short is filled up with null.
FillUp(a, i) == [k \in 1 .. (IF i >= Len(a) THEN i + 1 ELSE Len(a)) |->
                    IF k <= Len(a) THEN a[k] ELSE Null]

\* What null becomes on the way: in operator[](ptr) (get_unchecked) an array if the
\* token is of digits, of none too, or "-"; in unflatten (get_and_create) only if it
\* is "0".
Container(rule, token) ==
    LET array == IF rule = "unchecked"
                 THEN token = Dash \/ \A k \in DOMAIN token : token[k] \in Digits
                 ELSE token = <<Zero>>
    IN  IF array THEN Array(<<>>) ELSE Object(NoMembers)

\* The value after x has been assigned to what the pointer refers to, with the
\* missing elements created.
RECURSIVE Create(_, _, _, _)
Create(rule, v, ptr, x) ==
    IF ptr = <<>> THEN x
    ELSE LET token == Head(ptr)
             u == IF v = Null THEN Container(rule, token) ELSE v
             i == IF rule = "unchecked" /\ token = Dash THEN <<"index", Len(u[2])>>
                  ELSE ArrayIndex(token)
             filled == FillUp(u[2], i[2])
             member == IF token \in DOMAIN u[2] THEN u[2][token] ELSE Null
             below(c) == Create(rule, c, Tail(ptr), x)
         IN  CASE u[1] = "object" ->
                    IF Threw(below(member)) THEN below(member)
                    ELSE Object(With(u[2], token, below(member)))
               [] u[1] = "array" ->
                    IF Threw(i) THEN i
                    ELSE LET new == below(filled[i[2] + 1])
                         IN  IF Threw(new) THEN new ELSE Array([filled EXCEPT ![i[2] + 1] = new])
               [] OTHER -> Throw(IF rule = "unchecked" THEN 404 ELSE 313)

(***************************************************************************)
(* flatten and unflatten.                                                  *)
(***************************************************************************)
\* The text of an index, std::to_string.
IndexText(i) == DumpInteger(i)

RECURSIVE Flatten(_, _)
Flatten(path, v) ==
    LET tokens == IF v[1] = "array" THEN [k \in DOMAIN v[2] |-> IndexText(k - 1)]
                  ELSE [k \in DOMAIN v[2] |-> Escape(k)]
        below == {Flatten(path \o <<Slash>> \o tokens[k], v[2][k]) : k \in DOMAIN v[2]}
        paths == UNION {DOMAIN f : f \in below}
    IN  IF v[1] \notin {"array", "object"} THEN Member(path, v)
        ELSE IF DOMAIN v[2] = {} THEN Member(path, Null)
        ELSE [p \in paths |-> (CHOOSE f \in below : p \in DOMAIN f)[p]]

\* Mutant: elements are created as in operator[].
MutantUnflattenRule == "unchecked"
UnflattenRule == "unflatten"

\* The members that are left are taken in the order of the object.
RECURSIVE UnflattenFrom(_, _, _)
UnflattenFrom(members, keys, x) ==
    LET key == Head(keys)
        ptr == SplitPointer(key)
        rest(y) == UnflattenFrom(members, Tail(keys), y)
    IN  IF Threw(x) \/ keys = <<>> THEN x
        ELSE Apply(rest, IF members[key][1] \in {"array", "object"} THEN Throw(315)
                         ELSE IF Threw(ptr) THEN ptr
                         ELSE Create(UnflattenRule, x, ptr[2], members[key]))
Unflatten(v) ==
    IF v[1] # "object" THEN Throw(314) ELSE UnflattenFrom(v[2], InOrder(DOMAIN v[2]), Null)

(***************************************************************************)
(* Comparison: numbers of different types are compared after a conversion, *)
(* an unsigned one to the signed type as it is.                            *)
(***************************************************************************)
IsInteger(v) == v[1] \in {"integer", "unsigned"}
AsFloat(v) == IF IsInteger(v) THEN DecimalValue(DumpInteger(v[2])) ELSE v[2]
AsInteger(v) == IF v[2] >= 2 ^ (IntegerBits - 1) THEN v[2] - 2 ^ IntegerBits ELSE v[2]

RECURSIVE Equal(_, _)
Equal(a, b) ==
    CASE a[1] = b[1] /\ a[1] \in {"array", "object"} ->
            DOMAIN a[2] = DOMAIN b[2] /\ \A k \in DOMAIN a[2] : Equal(a[2][k], b[2][k])
      [] a[1] = b[1] /\ a[1] \notin {"array", "object"} -> a = b /\ a # Discarded
      [] a[1] # b[1] /\ IsInteger(a) /\ IsInteger(b) -> AsInteger(a) = AsInteger(b)
      [] a[1] # b[1] /\ "float" \in {a[1], b[1]} ->
            /\ \A v \in {a, b} : v[1] = "float" \/ IsInteger(v)
            /\ AsFloat(a) = AsFloat(b)
      [] OTHER -> FALSE

(***************************************************************************)
(* patch_inplace.  An operation is a record with some of the members op,   *)
(* path, from and value; the members that name locations are strings.      *)
(***************************************************************************)
InsertInto(a, i, x) == SubSeq(a, 1, i) \o <<x>> \o SubSeq(a, i + 1, Len(a))

\* operation_add in the parent.
AddTo(parent, token, x) ==
    LET i == ArrayIndex(token)
    IN  CASE parent[1] \in {"null", "object"} ->
                Object(With(IF parent = Null THEN NoMembers ELSE parent[2], token, x))
          [] parent[1] = "array" ->
                IF token = Dash THEN Array(Append(parent[2], x))
                ELSE IF Threw(i) THEN i
                ELSE IF i[2] > Len(parent[2]) THEN Throw(401)
                ELSE Array(InsertInto(parent[2], i[2], x))
          [] OTHER -> Throw("assertion")

OperationAdd(doc, ptr, x) ==
    LET parent == GetChecked(doc, Front(ptr))
        added == IF Threw(parent) THEN parent ELSE AddTo(parent, Last(ptr), x)
    IN  IF ptr = <<>> THEN x ELSE AssignAt(doc, Front(ptr), added)

\* erase of a member or an element; nothing happens to a parent of another kind.
RemoveFrom(parent, token) ==
    LET i == ArrayIndex(token)
    IN  CASE parent[1] = "object" ->
                IF token \notin DOMAIN parent[2] THEN Throw(403)
                ELSE Object([k \in DOMAIN parent[2] \ {token} |-> parent[2][k]])
          [] parent[1] = "array" ->
                IF Threw(i) THEN i
                ELSE IF i[2] >= Len(parent[2]) THEN Throw(401)
                ELSE Array(RemoveAt(parent[2], i[2] + 1))
          [] OTHER -> parent

OperationRemove(doc, ptr) ==
    LET parent == GetChecked(doc, Front(ptr))
        removed == IF Threw(parent) THEN parent ELSE RemoveFrom(parent, Last(ptr))
    IN  IF ptr = <<>> THEN Throw(405) ELSE AssignAt(doc, Front(ptr), removed)

\* Only an exception of kind out_of_range makes a test unsuccessful.
OutOfRange(v) == v[2] \in 401 .. 410

\* Needs: the members an operation must have besides op and path.
Needs == [add |-> {"value"}, remove |-> {}, replace |-> {"value"}, move |-> {"from"},
          copy |-> {"from"}, test |-> {"value"}]

OperationMove(removed, to, value) ==
    IF Threw(removed) THEN removed ELSE OperationAdd(removed, to, value)
ApplyOperation(doc, o) ==
    LET path == SplitPointer(o.path)
        from == SplitPointer(o.from)
        source == GetChecked(doc, from[2])
        tested == GetChecked(doc, path[2])
    IN  CASE "op" \notin DOMAIN o \/ "path" \notin DOMAIN o -> Throw(105)
          [] {"op", "path"} \subseteq DOMAIN o /\ Threw(path) -> path
          [] OTHER ->
                IF o.op \notin DOMAIN Needs THEN Throw(105)
                ELSE IF o.op = "test" /\ Threw(tested) /\ OutOfRange(tested) THEN Throw(501)
                ELSE IF o.op = "test" /\ Threw(tested) THEN tested
                ELSE IF ~(Needs[o.op] \subseteq DOMAIN o) THEN Throw(105)
                ELSE IF o.op \in {"move", "copy"} /\ Threw(from) THEN from
                ELSE IF o.op \in {"move", "copy"} /\ Threw(source) THEN source
                ELSE CASE o.op = "add" -> OperationAdd(doc, path[2], o.value)
                       [] o.op = "remove" -> OperationRemove(doc, path[2])
                       [] o.op = "replace" -> AssignAt(doc, path[2], o.value)
                       [] o.op = "move" -> OperationMove(OperationRemove(doc, from[2]), path[2], source)
                       [] o.op = "copy" -> OperationAdd(doc, path[2], source)
                       [] o.op = "test" ->
                            IF Equal(tested, o.value) THEN doc ELSE Throw(501)

\* patch: a copy is patched, so that an exception leaves the document as it was.
Patch(doc, patch) ==
    FoldLeft(LAMBDA d, o : IF Threw(d) THEN d ELSE ApplyOperation(d, o), doc, patch)

(***************************************************************************)
(* diff.                                                                   *)
(***************************************************************************)
\* Mutant: the elements are removed from the first to the last.
MutantRemovals(path, from, to) ==
    [k \in 1 .. to - from |-> [op |-> "remove", path |-> path \o <<Slash>> \o IndexText(from + k - 1)]]
\* The elements from .. to - 1 are removed, the last one first.
Removals(path, from, to) ==
    [k \in 1 .. to - from |-> [op |-> "remove", path |-> path \o <<Slash>> \o IndexText(to - k)]]

RECURSIVE Diff(_, _, _)
Diff(source, target, path) ==
    LET replace == <<[op |-> "replace", path |-> path, value |-> target]>>
        s == source[2]
        t == target[2]
        common == IF Len(s) < Len(t) THEN Len(s) ELSE Len(t)
        keyPath(key) == path \o <<Slash>> \o Escape(key)
        keys(m) == InOrder(DOMAIN m)
    IN  CASE Equal(source, target) -> <<>>
          [] ~Equal(source, target) /\ source[1] = target[1] /\ source[1] = "array" ->
                FlattenSeq([k \in 1 .. common |->
                               Diff(s[k], t[k], path \o <<Slash>> \o IndexText(k - 1))])
                \o Removals(path, common, Len(s))
                \o [k \in 1 .. Len(t) - common |->
                       [op |-> "add", path |-> path \o <<Slash, Minus>>, value |-> t[common + k]]]
          [] ~Equal(source, target) /\ source[1] = target[1] /\ source[1] = "object" ->
                FlattenSeq([k \in DOMAIN keys(s) |->
                    LET key == keys(s)[k]
                    IN  IF key \in DOMAIN t THEN Diff(s[key], t[key], keyPath(key))
                        ELSE <<[op |-> "remove", path |-> keyPath(key)]>>])
                \o LET new == SelectSeq(keys(t), LAMBDA key : key \notin DOMAIN s)
                   IN  [k \in DOMAIN new |->
                           [op |-> "add", path |-> keyPath(new[k]), value |-> t[new[k]]]]
          [] OTHER -> replace

(***************************************************************************)
(* merge_patch and update.                                                 *)
(***************************************************************************)
\* What a member of the patch is merged with, operator[](key).
MergedWith(old, key) == IF key \in DOMAIN old THEN old[key] ELSE Null

RECURSIVE MergePatch(_, _)
MergePatch(v, patch) ==
    LET old == IF v[1] = "object" THEN v[2] ELSE NoMembers
        new == patch[2]
        kept == {k \in DOMAIN old \cup DOMAIN new : k \in DOMAIN new => new[k] # Null}
    IN  IF patch[1] # "object" THEN patch
        ELSE Object([k \in kept |->
                        IF k \in DOMAIN new THEN MergePatch(MergedWith(old, k), new[k]) ELSE old[k]])

RECURSIVE Update(_, _, _)
Update(v, other, merge_objects) ==
    LET old == IF v = Null THEN NoMembers ELSE v[2]
        new == other[2]
        member(k) == IF k \notin DOMAIN new THEN old[k]
                     ELSE IF merge_objects /\ new[k][1] = "object" /\ k \in DOMAIN old
                     THEN Update(old[k], new[k], TRUE) ELSE new[k]
        members == [k \in DOMAIN old \cup DOMAIN new |-> member(k)]
        thrown == {k \in DOMAIN members : Threw(members[k])}
    IN  IF v[1] \notin {"null", "object"} \/ other[1] # "object" THEN Throw(312)
        ELSE IF thrown # {} THEN Throw(312) ELSE Object(members)

=============================================================================
