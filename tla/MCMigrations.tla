---------------------------- MODULE MCMigrations ----------------------------
(* Instance of Migrations for TLC, after deploy/migrations: a table with   *)
(* its index, views with their policies and a setting with its policies    *)
(* (both without a transaction), and another table.                        *)
EXTENDS Migrations

MCStatements ==
  <<<<"create", "create">>, <<"create", "create">>, <<"set", "create", "create">>,
    <<"create">>>>
=============================================================================
