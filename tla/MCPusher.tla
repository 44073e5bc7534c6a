------------------------------ MODULE MCPusher -------------------------------
EXTENDS Pusher

\* one public and one private channel
MCChannels == {"repo-1", "private-user-1"}
MCPrivate == {"private-user-1"}
=============================================================================
