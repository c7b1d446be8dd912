---------------------------- MODULE MCConversation ----------------------------
(* The instance of Conversation for TLC.                                   *)
EXTENDS Conversation, TLC

String == [shape |-> "string", parts |-> <<"text">>]
Null == [shape |-> "null", parts |-> <<>>]
Array(parts) == [shape |-> "array", parts |-> parts]

Says(role, content) == [role |-> role, content |-> content]

\* Both surfaces take the first two of the user's; the third is the Responses
\* API's own spelling, the fourth an image without a URL.  "function" is the role
\* of an older API.
Writes ==
  {Says("user", String), Says("user", Array(<<"text", "image_url">>)),
   Says("user", Array(<<"input_text">>)), Says("user", Array(<<"image_empty">>)),
   Says("system", String), Says("developer", Array(<<"text", "image_url">>)),
   Says("function", String)}

Reply(content, calls, thought) == [content |-> content, calls |-> calls, thought |-> thought]
Gives == {Reply(String, 0, TRUE), Reply(String, 1, FALSE), Reply(Null, 2, TRUE), Reply(Null, 0, TRUE)}

Absent == [given |-> FALSE, list |-> <<>>]
Tools(list) == [given |-> TRUE, list |-> list]
Client(tools, key, state) == [tools |-> tools, key |-> key, state |-> state]

Clients ==
  {Client(Tools(<<"full", "sparse">>), "absent", "none"),
   Client(Absent, "", "previous_response_id"),
   Client(Tools(<<"full", "web_search">>), "mine", "background"),
   Client(Tools(<<>>), "mine", "none")}

Model(slug, visibility, window, maxWindow, levels) ==
  [slug |-> slug, visibility |-> visibility, window |-> window, maxWindow |-> maxWindow, levels |-> levels]

Sol == <<"sol">>
Four == <<"four">>
CapOf == [slug \in {Four} |-> 8]
MCCapped == {Four}
MCLongVariants == {Sol}
MCNoneUnsupported == {Four}

\* The third has a slug with the separator in it, and numbers that do not fit.
Answers ==
  {<<Model(Sol, "list", 2, 8, {"low", "ultra"}), Model(Four, "hide", 2, 9, {})>>,
   <<Model(Sol, "list", 8, 8, {"low"}), Model(Four, "list", 9, 9, {}), Model(<<>>, "list", 2, 2, {})>>,
   <<Model(<<"sol", "mini">>, "list", 2, 1, {"low"})>>}
=============================================================================
