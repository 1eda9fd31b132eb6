---------------------------- MODULE MCResolvers -----------------------------
\* Three threads with two operations each; replies with up to two PACs.
EXTENDS Resolvers

MCMacReplies == {<<"p">>, <<"skip">>, <<"p", "pac">>, <<"pac", "direct", "pac">>, <<"p", "badPac">>}
MCPacReplies == {<<>>, <<"q", "direct">>, <<"skip", "pac">>}

=============================================================================
