---------------------------- MODULE MCGenerations ----------------------------
EXTENDS Generations
==============================================================================
