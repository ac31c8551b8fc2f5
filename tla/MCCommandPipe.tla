---- MODULE MCCommandPipe ----
EXTENDS CommandPipe
====
