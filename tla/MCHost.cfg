SPECIFICATION Spec
PROPERTIES  TickRight 
