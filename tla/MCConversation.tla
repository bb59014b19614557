---------------------------- MODULE MCConversation ----------------------------
EXTENDS Conversation, TLC

Form1(c, h) == [company |-> c, text |-> "what is low", history |-> h]
MCForms == ("q1" :> {Form1("c1", FALSE)})
           @@ ("q2" :> {Form1("c1", FALSE), Form1("c1", TRUE), Form1("c2", FALSE)})
MCChain == <<"primary", "fallback">>
MCTurns == {<<>>, <<"check_stock">>, <<"check_stock", "create_purchase_order">>,
            <<"unknown", "raises">>}
=============================================================================
