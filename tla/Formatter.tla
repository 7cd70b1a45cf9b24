----------------------------- MODULE Formatter -----------------------------
(***************************************************************************)
(* formatter.rs: RedisJsonFormatter, the serde_json Formatter JSON.GET     *)
(* renders through with its INDENT, SPACE and NEWLINE options.             *)
(*                                                                         *)
(* serde_json's Serializer walks the document and calls the formatter's    *)
(* callbacks in a fixed order (Calls below).  Each step of this module is *)
(* one callback, which updates current_indent and has_value and appends   *)
(* to the output.  The output is a sequence of tokens: brackets, ",",     *)
(* ":", the option strings (each a token standing for the string), "k"    *)
(* for a member name and "v" for a scalar, which serde_json writes        *)
(* through Formatter's default methods unchanged.                          *)
(***************************************************************************)
EXTENDS Integers, Sequences, SequencesExt, JsonValue

CONSTANTS
  Docs,       \* the documents rendered
  Indents,    \* values of the indent option
  Spaces,     \* values of the space option
  Newlines,   \* values of the newline option
  None        \* model value: Option::None

VARIABLES
  doc,             \* the value being serialized
  indent, space, newline,
  current_indent,  \* RedisJsonFormatter.current_indent
  has_value,       \* RedisJsonFormatter.has_value
  out,             \* what has been written so far
  pc               \* the index of the next callback serde_json makes

vars == <<doc, indent, space, newline, current_indent, has_value, out, pc>>

(***************************************************************************)
(* The callbacks serde_json's Serializer makes for v (serialize_seq and    *)
(* serialize_map of Value).  An empty container gets begin and end only.  *)
(***************************************************************************)
Call(f, first) == [f |-> f, first |-> first]

RECURSIVE Calls(_)
Calls(v) ==
  CASE v.t = "array" ->
         <<Call("begin_array", FALSE)>>
         \o FlattenSeq([i \in 1..Len(v.e) |->
               <<Call("begin_array_value", i = 1)>> \o Calls(v.e[i])
               \o <<Call("end_array_value", FALSE)>>])
         \o <<Call("end_array", FALSE)>>
    [] v.t = "object" ->
         <<Call("begin_object", FALSE)>>
         \o FlattenSeq([i \in 1..Len(v.e) |->
               <<Call("begin_object_key", i = 1), Call("key", FALSE),
                 Call("begin_object_value", FALSE)>>
               \o Calls(v.e[i]) \o <<Call("end_object_value", FALSE)>>])
         \o <<Call("end_object", FALSE)>>
    [] OTHER -> <<Call("scalar", FALSE)>>

calls == Calls(doc)

Init ==
  /\ doc \in Docs
  /\ indent \in Indents
  /\ space \in Spaces
  /\ newline \in Newlines
  /\ current_indent = 0
  /\ has_value = FALSE
  /\ out = <<>>
  /\ pc = 1

\* The next callback is f.
At(f) == pc <= Len(calls) /\ calls[pc].f = f

Write(s) == out' = out \o s /\ pc' = pc + 1

Opt(o) == IF o = None THEN <<>> ELSE <<o>>

\* new_line: the newline string, then the indent string current_indent times.
new_line(ci) ==
  Opt(newline) \o (IF indent = None THEN <<>> ELSE [i \in 1..ci |-> indent])

(***************************************************************************)
(* The callbacks.                                                          *)
(***************************************************************************)
\* Variant: begin_array that does not reset has_value.
begin_array_keep ==
  /\ At("begin_array")
  /\ current_indent' = current_indent + 1
  /\ Write(<<"[">>)
  /\ UNCHANGED <<doc, indent, space, newline, has_value>>

begin_array ==
  /\ At("begin_array")
  /\ current_indent' = current_indent + 1
  /\ has_value' = FALSE
  /\ Write(<<"[">>)
  /\ UNCHANGED <<doc, indent, space, newline>>

end_array ==
  /\ At("end_array")
  /\ current_indent' = current_indent - 1
  /\ Write((IF has_value THEN new_line(current_indent - 1) ELSE <<>>) \o <<"]">>)
  /\ UNCHANGED <<doc, indent, space, newline, has_value>>

begin_array_value ==
  /\ At("begin_array_value")
  /\ Write((IF calls[pc].first THEN <<>> ELSE <<",">>) \o new_line(current_indent))
  /\ UNCHANGED <<doc, indent, space, newline, current_indent, has_value>>

end_array_value ==
  /\ At("end_array_value")
  /\ has_value' = TRUE
  /\ Write(<<>>)
  /\ UNCHANGED <<doc, indent, space, newline, current_indent>>

\* Variant: begin_object that forgets to deepen the indentation.
begin_object_flat ==
  /\ At("begin_object")
  /\ has_value' = FALSE
  /\ Write(<<"{">>)
  /\ UNCHANGED <<doc, indent, space, newline, current_indent>>

begin_object ==
  /\ At("begin_object")
  /\ current_indent' = current_indent + 1
  /\ has_value' = FALSE
  /\ Write(<<"{">>)
  /\ UNCHANGED <<doc, indent, space, newline>>

end_object ==
  /\ At("end_object")
  /\ current_indent' = current_indent - 1
  /\ Write((IF has_value THEN new_line(current_indent - 1) ELSE <<>>) \o <<"}">>)
  /\ UNCHANGED <<doc, indent, space, newline, has_value>>

begin_object_key ==
  /\ At("begin_object_key")
  /\ Write((IF calls[pc].first THEN <<>> ELSE <<",">>) \o new_line(current_indent))
  /\ UNCHANGED <<doc, indent, space, newline, current_indent, has_value>>

begin_object_value ==
  /\ At("begin_object_value")
  /\ Write(<<":">> \o Opt(space))
  /\ UNCHANGED <<doc, indent, space, newline, current_indent, has_value>>

end_object_value ==
  /\ At("end_object_value")
  /\ has_value' = TRUE
  /\ Write(<<>>)
  /\ UNCHANGED <<doc, indent, space, newline, current_indent>>

\* serde_json writes a member name or a scalar through the default methods.
WriteText ==
  /\ \/ At("key") /\ Write(<<"k">>)
     \/ At("scalar") /\ Write(<<"v">>)
  /\ UNCHANGED <<doc, indent, space, newline, current_indent, has_value>>

\* The serializer has returned; the reply is complete.
Done == pc > Len(calls) /\ UNCHANGED vars

Next ==
  \/ begin_array \/ end_array \/ begin_array_value \/ end_array_value
  \/ begin_object \/ end_object \/ begin_object_key \/ begin_object_value
  \/ end_object_value \/ WriteText \/ Done

Spec == Init /\ [][Next]_vars

-----------------------------------------------------------------------------
TypeOK ==
  /\ doc \in Docs
  /\ current_indent \in Nat
  /\ has_value \in BOOLEAN
  /\ pc \in 1..(Len(calls) + 1)

(***************************************************************************)
(* The layout spec 4.6 describes, rendered recursively: each element is   *)
(* preceded by a comma if it is not the first, then the newline string    *)
(* and the indent string once per level of nesting; an object member is  *)
(* "name:" and the space string before its value; a container with at    *)
(* least one child closes on a new line at its own depth, an empty one    *)
(* closes at once.  The spec keeps a has-value flag per nesting level.    *)
(***************************************************************************)
Break(o, ind, d) == Opt(o) \o (IF ind = None THEN <<>> ELSE [i \in 1..d |-> ind])

RECURSIVE Render(_, _, _, _, _)
Render(v, ind, sp, nl, d) ==
  LET Member(i) == IF v.t = "object" THEN <<"k", ":">> \o Opt(sp) ELSE <<>>
      Child(i)  == (IF i = 1 THEN <<>> ELSE <<",">>) \o Break(nl, ind, d + 1)
                   \o Member(i) \o Render(v.e[i], ind, sp, nl, d + 1)
      Body      == FlattenSeq([i \in 1..Len(v.e) |-> Child(i)])
      Close     == IF v.e = <<>> THEN <<>> ELSE Break(nl, ind, d)
  IN  CASE v.t = "array"  -> <<"[">> \o Body \o Close \o <<"]">>
        [] v.t = "object" -> <<"{">> \o Body \o Close \o <<"}">>
        [] OTHER          -> <<"v">>

(***************************************************************************)
(* JSON.GET streams exactly that layout: at every callback what           *)
(* RedisJsonFormatter has written is a prefix of the reference rendering, *)
(* and when serde_json returns it is the whole of it.  This is what a     *)
(* single has_value flag for all nesting levels must get right: a nested  *)
(* container that ends must not leave its flag to its parent or to its    *)
(* next sibling.                                                           *)
(***************************************************************************)
StreamsReference ==
  LET ref == Render(doc, indent, space, newline, 0)
  IN  /\ IsPrefix(out, ref)
      /\ pc > Len(calls) => out = ref
=============================================================================
