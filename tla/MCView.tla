------------------------------- MODULE MCView -------------------------------
\* Two chats, the second of them a public group.
EXTENDS View

MCPublic == {"b"}
=============================================================================
